---------------------------- MODULE Spec2Model ----------------------------
(***************************************************************************)
(* Battery / photovoltaic dispatch schedulers of solar_perfect.            *)
(*                                                                         *)
(* Modelled engines:                                                       *)
(*   "greedy"     SimplifiedOptimizer.optimize_greedy                      *)
(*   "lookahead"  ImprovedOptimizer.optimize_with_lookahead                *)
(*   "daytime"    DaytimeStorageOptimizer.optimize_daily                   *)
(*   "gridlimit"  GridLimitedOptimizer (run_with_grid_limits.py)           *)
(*   "gdo"        greedy_discharge_optimization.py (script)                *)
(*   "v2"         greedy_discharge_v2.py (script)                          *)
(*   "exact"      EnergyStorageOptimizer / GurobiEnergyOptimizer (MILP)    *)
(*                                                                         *)
(* The Python code computes with floats.  The model computes with exact    *)
(* rationals <<numerator, denominator>> (reduced, denominator > 0), so     *)
(* that an equality of the model is an equality "within floating-point     *)
(* tolerance" of the code.  Powers are in kW, energies in kWh, prices in   *)
(* AUD/kWh (class-based engines) or AUD/MWh (scripts), as in the source.   *)
(* Configuration values are small so that the rationals stay inside TLC's  *)
(* integers; thresholds and formulas are the source's.                     *)
(***************************************************************************)
EXTENDS Integers, Sequences, FiniteSets, TLC

(***************************************************************************)
(* Exact rational arithmetic (stands for Python float arithmetic).         *)
(***************************************************************************)
Abs(x) == IF x < 0 THEN -x ELSE x

RECURSIVE GCD(_, _)
GCD(a, b) == IF b = 0 THEN a ELSE GCD(b, a % b)

Rat(n, d) ==
    LET s == IF d < 0 THEN -1 ELSE 1
        g == GCD(Abs(n), Abs(d))
    IN  <<(s * n) \div g, (s * d) \div g>>

Int2Rat(n) == <<n, 1>>
Zero == <<0, 1>>
One == <<1, 1>>

RAdd(a, b) == Rat(a[1] * b[2] + b[1] * a[2], a[2] * b[2])
RSub(a, b) == Rat(a[1] * b[2] - b[1] * a[2], a[2] * b[2])
RMul(a, b) == Rat(a[1] * b[1], a[2] * b[2])
RDiv(a, b) == Rat(a[1] * b[2], a[2] * b[1])
RNeg(a) == <<-a[1], a[2]>>
RLt(a, b) == a[1] * b[2] < b[1] * a[2]
RLe(a, b) == a[1] * b[2] <= b[1] * a[2]
RGt(a, b) == RLt(b, a)
RGe(a, b) == RLe(b, a)
RMin(a, b) == IF RLt(b, a) THEN b ELSE a
RMax(a, b) == IF RGt(b, a) THEN b ELSE a
RMin3(a, b, c) == RMin(RMin(a, b), c)
RAbs(a) == <<Abs(a[1]), a[2]>>
RFloor(a) == a[1] \div a[2]


RECURSIVE RSum(_)
RSum(s) == IF s = <<>> THEN Zero ELSE RAdd(Head(s), RSum(Tail(s)))

RECURSIVE RMaxSeq(_)
RMaxSeq(s) == IF Len(s) = 1 THEN s[1] ELSE RMax(s[1], RMaxSeq(Tail(s)))

\* Insertion of x into an ascending sequence, and ascending sort of a sequence.
RECURSIVE InsertAsc(_, _)
InsertAsc(x, s) ==
    IF s = <<>> THEN <<x>>
    ELSE IF RLe(x, Head(s)) THEN <<x>> \o s
    ELSE <<Head(s)>> \o InsertAsc(x, Tail(s))

RECURSIVE SortAsc(_)
SortAsc(s) == IF s = <<>> THEN <<>> ELSE InsertAsc(Head(s), SortAsc(Tail(s)))

\* pandas Series.quantile(q), default linear interpolation.
Quantile(s, q) ==
    LET v == SortAsc(s)
        h == RMul(Int2Rat(Len(s) - 1), q)
        lo == RFloor(h)
        frac == RSub(h, Int2Rat(lo))
    IN  IF frac = Zero THEN v[lo + 1]
        ELSE RAdd(v[lo + 1], RMul(RSub(v[lo + 2], v[lo + 1]), frac))

\* numpy.mean of a non-empty sequence.
Mean(s) == RDiv(RSum(s), Int2Rat(Len(s)))

(***************************************************************************)
(* Bounds of the model.                                                    *)
(***************************************************************************)
\* Number of 5-minute periods of a horizon of the sequential engines.
MaxPeriods == 3

\* Calendar days of a horizon of the day-partitioned engines, and the number
\* of 5-minute periods of each day.
MaxDays == 2
PeriodsPerDay == 2

\* Number of 5-minute periods of a horizon given to the exact formulation.
ExactPeriods == 2

\* Number of calls of optimize_daily on one optimizer instance.
MaxRuns == 2

\* The longest horizon of the linear programs, in periods.
LpPeriods == 2

(***************************************************************************)
(* Inputs: the rows of the CSV file and the constructor arguments.         *)
(***************************************************************************)
\* Price levels, in AUD/MWh: below the export floor (-LGC = -10), negative
\* above the floor, low and high.
PriceLevels == {-20, -5, 10, 50}

\* Plane-of-array irradiance levels of the sequential engines, W/m2.
SeqPoaLevels == {0, 24, 48}

\* Values of the argument lookahead_periods (default 12).
LookaheadChoices == {2, 12}

\* Time step of the class-based engines: self.dt = 5 / 60 hours.
dt == Rat(5, 60)

\* Constructor arguments of SimplifiedOptimizer / ImprovedOptimizer.
SeqConfigs ==
    [lgc_price : {Rat(10, 1000)},
     poa_to_power_ratio : {Int2Rat(500)},
     P_charge_max : {Int2Rat(12)},
     P_discharge_max : {Int2Rat(12)},
     E_capacity : {Int2Rat(2)},
     eta_c : {Rat(1, 2)},
     eta_d : {Rat(1, 2)},
     ramp_rate : {Rat(6, 300), Rat(300, 300)},
     initial_soc : {Rat(1, 2), One}]

\* self.max_ramp = ramp_rate * 300
max_ramp(c) == RMul(c.ramp_rate, Int2Rat(300))

\* self.data['pv_power'] = self.data['poa'] * self.poa_to_power_ratio / 1000
PvPower(c, poa) == RDiv(RMul(Int2Rat(poa), c.poa_to_power_ratio), Int2Rat(1000))

\* One row of the loaded data frame; the CSV price column is in AUD/kWh.
DataRow(c, poa, price) ==
    [poa |-> poa, rrp |-> Rat(price, 1000), pv_power |-> PvPower(c, poa)]

VARIABLES
    alg,                \* the engine that runs
    cfg,                \* its configuration (constructor arguments)
    data,               \* self.data: the loaded rows
    pc,                 \* position of the run: "new", "loaded", "run", "calc", "done"
    t,                  \* loop index of the period loop (1-based)
    soc,                \* running state of charge, kWh
    prev_grid_export,   \* previous period's P_grid_export
    results,            \* rows written so far
    revenue,            \* per-period net_revenue, once calculated
    lookahead_periods,  \* argument of optimize_with_lookahead
    day_idx,            \* index of the calendar day being processed (1-based)
    local,              \* local variables of the day being processed
    prev_day_soc,       \* attribute self._prev_day_soc ("unset" while absent)
    returned            \* what the calls completed on this instance returned

vars == <<alg, cfg, data, pc, t, soc, prev_grid_export, results, revenue,
          lookahead_periods, day_idx, local, prev_day_soc, returned>>

\* State of the day-partitioned engines, untouched by the sequential ones.
dayVars == <<day_idx, local, prev_day_soc>>

(***************************************************************************)
(* SimplifiedOptimizer (simplified_optimization.py)                        *)
(***************************************************************************)
\* (self.E_capacity - soc) / (self.dt * self.eta_c)
HeadroomPower(c, s) == RDiv(RSub(c.E_capacity, s), RMul(dt, c.eta_c))

\* min_export_price = -self.lgc_price
min_export_price(c) == RNeg(c.lgc_price)

Rrps(d) == [i \in 1..Len(d) |-> d[i].rrp]
rrp_25(d) == Quantile(Rrps(d), Rat(25, 100))
rrp_75(d) == Quantile(Rrps(d), Rat(75, 100))

\* Branch "rrp < 0" of optimize_greedy.
GreedyNegative(c, pv, s) ==
    LET P_grid_import == RMin(c.P_charge_max, HeadroomPower(c, s))
        pv_to_battery ==
            IF RLt(P_grid_import, c.P_charge_max)
            THEN RMin3(pv, RSub(c.P_charge_max, P_grid_import),
                       RSub(HeadroomPower(c, s), P_grid_import))
            ELSE Zero
        pv_remaining == RSub(pv, pv_to_battery)
    IN  [P_charge |-> RAdd(P_grid_import, pv_to_battery),
         P_discharge |-> Zero,
         P_grid_import |-> P_grid_import,
         P_grid_export |-> IF RGt(pv_remaining, Zero) THEN pv_remaining ELSE Zero]

\* Branch "rrp < rrp_25" of optimize_greedy.
GreedyLow(c, pv, rrp, s, q25) ==
    IF RLt(s, RMul(Rat(8, 10), c.E_capacity))
    THEN LET pv_to_battery == RMin3(pv, c.P_charge_max, HeadroomPower(c, s))
             pv_remaining == RSub(pv, pv_to_battery)
             grid_charge ==
                 IF RLt(rrp, RMul(q25, Rat(5, 10))) /\ RLt(s, RMul(Rat(3, 10), c.E_capacity))
                 THEN RMin(RSub(c.P_charge_max, pv_to_battery),
                           RSub(HeadroomPower(c, s), pv_to_battery))
                 ELSE Zero
         IN  [P_charge |-> RAdd(pv_to_battery, grid_charge),
              P_discharge |-> Zero,
              P_grid_import |-> grid_charge,
              P_grid_export |-> pv_remaining]
    ELSE [P_charge |-> Zero, P_discharge |-> Zero, P_grid_import |-> Zero,
          P_grid_export |-> pv]

\* Branch "rrp > rrp_75" of optimize_greedy.
GreedyHigh(c, pv, rrp, s) ==
    LET P_discharge ==
            IF RGt(s, RMul(Rat(1, 10), c.E_capacity)) /\ RGt(rrp, min_export_price(c))
            THEN RMin(c.P_discharge_max, RDiv(RMul(s, c.eta_d), dt))
            ELSE Zero
    IN  [P_charge |-> Zero, P_discharge |-> P_discharge, P_grid_import |-> Zero,
         P_grid_export |-> RAdd(pv, P_discharge)]

\* Branch "else" of optimize_greedy.
GreedyMid(c, pv, rrp) ==
    [P_charge |-> Zero, P_discharge |-> Zero, P_grid_import |-> Zero,
     P_grid_export |-> IF RGt(rrp, min_export_price(c)) THEN pv ELSE Zero]

\* The decision table of optimize_greedy (first match wins).
GreedyDecision(c, pv, rrp, s, q25, q75) ==
    IF RLt(rrp, Zero) THEN GreedyNegative(c, pv, s)
    ELSE IF RLt(rrp, q25) THEN GreedyLow(c, pv, rrp, s, q25)
    ELSE IF RGt(rrp, q75) THEN GreedyHigh(c, pv, rrp, s)
    ELSE GreedyMid(c, pv, rrp)

\* The ramp-rate clamp of P_grid_export, and the cap to pv + P_discharge that
\* is applied only when the clamp fired.
RampClamp(c, P_grid_export, prev, available) ==
    IF RGt(RAbs(RSub(P_grid_export, prev)), max_ramp(c))
    THEN LET clamped == IF RGt(P_grid_export, prev)
                        THEN RAdd(prev, max_ramp(c))
                        ELSE RMax(Zero, RSub(prev, max_ramp(c)))
         IN  IF RGt(clamped, available) THEN available ELSE clamped
    ELSE P_grid_export

\* np.clip(soc, 0, self.E_capacity)
Clip(x, lo, hi) == IF RLt(x, lo) THEN lo ELSE IF RGt(x, hi) THEN hi ELSE x

\* soc += P_charge*dt*eta_c; soc -= P_discharge*dt/eta_d; soc = clip(soc)
SocUpdate(c, s, P_charge, P_discharge) ==
    Clip(RSub(RAdd(s, RMul(RMul(P_charge, dt), c.eta_c)),
              RDiv(RMul(P_discharge, dt), c.eta_d)),
         Zero, c.E_capacity)

\* One iteration of the period loop, after the decision: ramp clamp, state of
\* charge update, result row.
SeqRow(c, d, pv, s, prev) ==
    LET export == RampClamp(c, d.P_grid_export, prev, RAdd(pv, d.P_discharge))
    IN  [P_charge |-> d.P_charge,
         P_discharge |-> d.P_discharge,
         P_grid_import |-> d.P_grid_import,
         P_grid_export |-> export,
         SOC |-> SocUpdate(c, s, d.P_charge, d.P_discharge)]

\* The constructor: the engine holds its configuration, no data yet.
SeqInit ==
    /\ alg \in {"greedy", "lookahead"}
    /\ cfg \in SeqConfigs
    /\ data = <<>>
    /\ pc = "new"
    /\ t = 0
    /\ soc = Zero
    /\ prev_grid_export = Zero
    /\ results = <<>>
    /\ revenue = <<>>
    /\ lookahead_periods = 0
    /\ day_idx = 0
    /\ local = <<>>
    /\ prev_day_soc = "unset"
    /\ returned = <<>>

\* load_data: the rows of the CSV file, with pv_power derived.
LoadData ==
    /\ pc = "new"
    /\ alg \in {"greedy", "lookahead"}
    /\ \E poas \in [1..MaxPeriods -> SeqPoaLevels], prices \in [1..MaxPeriods -> PriceLevels] :
          data' = [i \in 1..MaxPeriods |-> DataRow(cfg, poas[i], prices[i])]
    /\ pc' = "loaded"
    /\ UNCHANGED <<returned, alg, cfg, t, soc, prev_grid_export, results, revenue, lookahead_periods, dayVars>>

\* optimize_greedy / optimize_with_lookahead up to the period loop.
OptimizeBegin ==
    /\ pc = "loaded"
    /\ alg \in {"greedy", "lookahead"}
    /\ soc' = RMul(cfg.initial_soc, cfg.E_capacity)
    /\ prev_grid_export' = Zero
    /\ results' = <<>>
    /\ t' = 1
    /\ pc' = "run"
    /\ IF alg = "lookahead"
       THEN lookahead_periods' \in LookaheadChoices
       ELSE UNCHANGED lookahead_periods
    /\ UNCHANGED <<returned, alg, cfg, data, revenue, dayVars>>

\* One iteration of "for t in range(self.n)" of optimize_greedy.
GreedyStep ==
    /\ pc = "run"
    /\ alg = "greedy"
    /\ t <= Len(data)
    /\ LET d == GreedyDecision(cfg, data[t].pv_power, data[t].rrp, soc,
                               rrp_25(data), rrp_75(data))
           row == SeqRow(cfg, d, data[t].pv_power, soc, prev_grid_export)
       IN  /\ results' = Append(results, row)
           /\ soc' = row.SOC
           /\ prev_grid_export' = row.P_grid_export
    /\ t' = t + 1
    /\ UNCHANGED <<returned, alg, cfg, data, pc, revenue, lookahead_periods, dayVars>>

(***************************************************************************)
(* ImprovedOptimizer (alternative_optimization.py)                         *)
(***************************************************************************)
\* future_prices[1:], where future_prices = rrp_values[t:min(t + K, n)]
\* (0-based t); here i is the 1-based index of the current period.
FuturePrices(d, i, K) ==
    LET last == IF i - 1 + K < Len(d) THEN i - 1 + K ELSE Len(d)
    IN  [j \in 1..(last - i) |-> d[i + j].rrp]

max_future_price(d, i, K) ==
    IF FuturePrices(d, i, K) # <<>> THEN RMaxSeq(FuturePrices(d, i, K)) ELSE d[i].rrp

avg_future_price(d, i, K) ==
    IF FuturePrices(d, i, K) # <<>> THEN Mean(FuturePrices(d, i, K)) ELSE d[i].rrp

\* Branch "rrp < 0" of optimize_with_lookahead.
LookaheadNegative(c, pv, s) ==
    LET max_charge == RMin(c.P_charge_max, HeadroomPower(c, s))
        pv_to_battery ==
            IF RLt(max_charge, c.P_charge_max)
            THEN RMin3(pv, RSub(c.P_charge_max, max_charge),
                       RSub(HeadroomPower(c, s), max_charge))
            ELSE Zero
        pv_remaining == RSub(pv, pv_to_battery)
    IN  [P_charge |-> RAdd(max_charge, pv_to_battery),
         P_discharge |-> Zero,
         P_grid_import |-> max_charge,
         P_grid_export |-> IF RGt(pv_remaining, Zero) THEN pv_remaining ELSE Zero]

\* Branch "rrp < avg_future_price * 0.5" of optimize_with_lookahead.
LookaheadLow(c, pv, rrp, s, avgf, maxf) ==
    IF RLt(s, RMul(Rat(9, 10), c.E_capacity))
    THEN LET pv_to_battery == RMin3(pv, c.P_charge_max, HeadroomPower(c, s))
             pv_remaining == RSub(pv, pv_to_battery)
             P_grid_import ==
                 IF RLt(rrp, RMul(avgf, Rat(3, 10))) /\ RGt(maxf, RMul(rrp, Int2Rat(3)))
                 THEN RMul(RMin(RSub(c.P_charge_max, pv_to_battery),
                                RSub(HeadroomPower(c, s), pv_to_battery)),
                           Rat(5, 10))
                 ELSE Zero
         IN  [P_charge |-> RAdd(pv_to_battery, P_grid_import),
              P_discharge |-> Zero,
              P_grid_import |-> P_grid_import,
              P_grid_export |-> pv_remaining]
    ELSE [P_charge |-> Zero, P_discharge |-> Zero, P_grid_import |-> Zero,
          P_grid_export |-> pv]

\* discharge_ratio = min(1.0, (rrp - avg_future_price * 0.5) / avg_future_price).
\* The operands are numpy floats: a zero divisor gives inf (or nan for 0/0),
\* and min(1.0, inf) = min(1.0, nan) = 1.0.
discharge_ratio(rrp, avgf) ==
    IF avgf = Zero THEN One
    ELSE RMin(One, RDiv(RSub(rrp, RMul(avgf, Rat(5, 10))), avgf))

\* min(self.P_discharge_max, soc * self.eta_d / self.dt)
max_discharge(c, s) == RMin(c.P_discharge_max, RDiv(RMul(s, c.eta_d), dt))

\* Branch "rrp > max_future_price * 0.9" of optimize_with_lookahead.
LookaheadPeak(c, pv, rrp, s, avgf) ==
    LET P_discharge ==
            IF RGt(s, RMul(Rat(15, 100), c.E_capacity)) /\ RGt(rrp, min_export_price(c))
            THEN RMul(max_discharge(c, s), discharge_ratio(rrp, avgf))
            ELSE Zero
    IN  [P_charge |-> Zero, P_discharge |-> P_discharge, P_grid_import |-> Zero,
         P_grid_export |-> RAdd(pv, P_discharge)]

\* Branch "rrp > avg_future_price" of optimize_with_lookahead.
LookaheadAbove(c, pv, rrp, s) ==
    LET P_discharge ==
            IF RGt(s, RMul(Rat(3, 10), c.E_capacity)) /\ RGt(rrp, min_export_price(c))
            THEN RMul(max_discharge(c, s), Rat(5, 10))
            ELSE Zero
    IN  [P_charge |-> Zero, P_discharge |-> P_discharge, P_grid_import |-> Zero,
         P_grid_export |-> RAdd(pv, P_discharge)]

\* Branch "else" of optimize_with_lookahead.
LookaheadMid(c, pv, rrp) ==
    [P_charge |-> Zero, P_discharge |-> Zero, P_grid_import |-> Zero,
     P_grid_export |-> IF RGt(rrp, min_export_price(c)) THEN pv ELSE Zero]

\* The decision table of optimize_with_lookahead (first match wins).
LookaheadDecision(c, pv, rrp, s, avgf, maxf) ==
    IF RLt(rrp, Zero) THEN LookaheadNegative(c, pv, s)
    ELSE IF RLt(rrp, RMul(avgf, Rat(5, 10))) THEN LookaheadLow(c, pv, rrp, s, avgf, maxf)
    ELSE IF RGt(rrp, RMul(maxf, Rat(9, 10))) THEN LookaheadPeak(c, pv, rrp, s, avgf)
    ELSE IF RGt(rrp, avgf) THEN LookaheadAbove(c, pv, rrp, s)
    ELSE LookaheadMid(c, pv, rrp)

\* One iteration of "for t in range(self.n)" of optimize_with_lookahead.
LookaheadStep ==
    /\ pc = "run"
    /\ alg = "lookahead"
    /\ t <= Len(data)
    /\ LET d == LookaheadDecision(cfg, data[t].pv_power, data[t].rrp, soc,
                                  avg_future_price(data, t, lookahead_periods),
                                  max_future_price(data, t, lookahead_periods))
           row == SeqRow(cfg, d, data[t].pv_power, soc, prev_grid_export)
       IN  /\ results' = Append(results, row)
           /\ soc' = row.SOC
           /\ prev_grid_export' = row.P_grid_export
    /\ t' = t + 1
    /\ UNCHANGED <<returned, alg, cfg, data, pc, revenue, lookahead_periods, dayVars>>

\* _calculate_revenue of the sequential engines:
\* net_revenue = P_grid_export*dt*rrp - P_grid_import*dt*rrp + pv_power*dt*lgc_price
SeqNetRevenue(c, row, r) ==
    RAdd(RSub(RMul(RMul(r.P_grid_export, dt), row.rrp),
              RMul(RMul(r.P_grid_import, dt), row.rrp)),
         RMul(RMul(row.pv_power, dt), c.lgc_price))

\* End of the period loop: self.results = results; self._calculate_revenue().
SeqCalculateRevenue ==
    /\ pc = "run"
    /\ alg \in {"greedy", "lookahead"}
    /\ t = Len(data) + 1
    /\ revenue' = [i \in 1..Len(data) |-> SeqNetRevenue(cfg, data[i], results[i])]
    /\ pc' = "done"
    /\ UNCHANGED <<returned, alg, cfg, data, t, soc, prev_grid_export, results, lookahead_periods, dayVars>>

SeqNext == LoadData \/ OptimizeBegin \/ GreedyStep \/ LookaheadStep \/ SeqCalculateRevenue

SpecSeq == SeqInit /\ [][SeqNext]_vars

\* Irradiance levels of a CSV file whose POA column holds negative readings.
SignedPoaLevels == {-24, 24}

\* load_data on such a file: the POA column is copied and multiplied as it
\* is, no row is examined and nothing is raised.
LoadSignedData ==
    /\ pc = "new"
    /\ alg \in {"greedy", "lookahead"}
    /\ \E poas \in [1..MaxPeriods -> SignedPoaLevels], prices \in [1..MaxPeriods -> PriceLevels] :
          data' = [i \in 1..MaxPeriods |-> DataRow(cfg, poas[i], prices[i])]
    /\ pc' = "loaded"
    /\ UNCHANGED <<returned, alg, cfg, t, soc, prev_grid_export, results, revenue, lookahead_periods, dayVars>>

SignedNext ==
    \/ LoadSignedData
    \/ OptimizeBegin
    \/ GreedyStep
    \/ LookaheadStep
    \/ SeqCalculateRevenue

SpecSigned == SeqInit /\ [][SignedNext]_vars


(***************************************************************************)
(* DaytimeStorageOptimizer (daytime_storage_optimization.py) and           *)
(* GridLimitedOptimizer (run_with_grid_limits.py)                          *)
(***************************************************************************)
\* Irradiance levels of the day-partitioned engines, W/m2: night without and
\* with generation (POA <= 5) and daylight that may charge (POA > 10).
DayPoaLevels == {0, 4, 24}

\* Price levels of the day-partitioned engines, AUD/MWh.
DayPriceLevels == {-20, 10, 50}

\* Constructor arguments of DaytimeStorageOptimizer / GridLimitedOptimizer.
DayConfigs ==
    [lgc_price : {Rat(10, 1000)},
     poa_to_power_ratio : {Int2Rat(500)},
     P_charge_max : {Int2Rat(12)},
     P_discharge_max : {Int2Rat(12)},
     E_capacity : {Int2Rat(2)},
     eta_c : {Rat(1, 2)},
     eta_d : {Rat(1, 2)},
     ramp_rate : {Rat(6, 300)},
     min_export_price : {Rat(-10, 1000)},
     initial_soc : {Rat(1, 2)},
     nel : {Int2Rat(8)},
     nil : {Int2Rat(6)}]

\* self.data['date']: the calendar day of row i (PeriodsPerDay rows a day).
DateOf(i) == ((i - 1) \div PeriodsPerDay) + 1

\* results[results['date'] == date]: the row indices of a day, in time order.
DayIndices(d, day) == {i \in 1..Len(d) : d[i].date = day}

NumDays(d) == IF d = <<>> THEN 0 ELSE d[Len(d)].date

\* The orders in which sort_values(key) may list the rows of S: ascending by
\* key, rows of equal key in any order (the default sort is not stable); key
\* maps a row index to its sort key.
SortedOrders(S, key) ==
    {o \in [1..Cardinality(S) -> S] :
        /\ \A a, b \in 1..Cardinality(S) : a # b => o[a] # o[b]
        /\ \A a \in 1..(Cardinality(S) - 1) : RLe(key[o[a]], key[o[a + 1]])}

\* The loop of phase 2 of _optimize_single_day over daytime_periods_sorted,
\* from position k on: the indices added to charging_periods.
RECURSIVE SelectCharging(_, _, _, _, _, _)
SelectCharging(c, d, order, k, accumulated_charge, target_charge_energy) ==
    IF k > Len(order) \/ RGe(accumulated_charge, target_charge_energy) THEN {}
    ELSE LET max_charge_this_period ==
                 RMin(RMul(c.P_charge_max, dt),
                      RSub(target_charge_energy, accumulated_charge))
             pv_energy == RMul(d[order[k]].pv_power, dt)
             acc == IF RGe(pv_energy, max_charge_this_period)
                    THEN RAdd(accumulated_charge, max_charge_this_period)
                    ELSE RAdd(accumulated_charge, pv_energy)
         IN  {order[k]} \cup
             (IF RGe(acc, RMul(target_charge_energy, Rat(999, 1000))) THEN {}
              ELSE SelectCharging(c, d, order, k + 1, acc, target_charge_energy))

\* All-zero row that optimize_daily writes before the days are processed.
IdleRow ==
    [P_charge |-> Zero, P_discharge |-> Zero, P_grid_import |-> Zero,
     P_grid_export |-> Zero, P_pv_curtail |-> Zero, SOC |-> Zero, action |-> "idle"]

\* min(self.P_charge_max, available_capacity / (self.dt * self.eta_c))
max_charge_power(c, s) == RMin(c.P_charge_max, HeadroomPower(c, s))

\* day_results['rrp'].quantile(0.75)
DayRrp75(d, day) ==
    Quantile([k \in 1..Cardinality(DayIndices(d, day)) |->
                 d[(day - 1) * PeriodsPerDay + k].rrp], Rat(75, 100))

\* Phase 3 of DaytimeStorageOptimizer._optimize_single_day for one row,
\* before the ramp clamp.
DaytimeDecision(c, row, charging, s, q75) ==
    IF charging
    THEN IF RGe(row.pv_power, max_charge_power(c, s))
         THEN LET excess_power == RSub(row.pv_power, max_charge_power(c, s))
                  exports == RGt(row.rrp, c.min_export_price)
              IN  [IdleRow EXCEPT !.action = "charging",
                                  !.P_charge = max_charge_power(c, s),
                                  !.P_grid_export = IF exports THEN excess_power ELSE Zero,
                                  !.P_pv_curtail = IF exports THEN Zero ELSE excess_power]
         ELSE LET nil_power == RMin(RSub(max_charge_power(c, s), row.pv_power),
                                    RSub(c.P_charge_max, row.pv_power))
              IN  [IdleRow EXCEPT !.action = "charging",
                                  !.P_charge = RAdd(row.pv_power, nil_power),
                                  !.P_grid_import = nil_power]
    ELSE IF row.poa > 5
    THEN IF RGt(row.rrp, c.min_export_price)
         THEN [IdleRow EXCEPT !.action = "pv_export", !.P_grid_export = row.pv_power]
         ELSE [IdleRow EXCEPT !.action = "curtail", !.P_pv_curtail = row.pv_power]
    ELSE IF RGt(row.rrp, q75) /\ RGt(s, RMul(Rat(1, 10), c.E_capacity))
    THEN [IdleRow EXCEPT !.action = "discharging",
                         !.P_discharge = max_discharge(c, s),
                         !.P_grid_export = max_discharge(c, s)]
    ELSE IdleRow

GridLimitedDecision_WithoutLimits(c, row, charging, s, q75) ==
    DaytimeDecision(c, row, charging, s, q75)

\* Phase 3 of GridLimitedOptimizer._optimize_single_day for one row, before
\* the ramp clamp.
GridLimitedDecision(c, row, charging, s, q75) ==
    IF charging
    THEN IF RGe(row.pv_power, max_charge_power(c, s))
         THEN LET excess_power == RSub(row.pv_power, max_charge_power(c, s))
              IN  IF RGt(row.rrp, c.min_export_price)
                  THEN [IdleRow EXCEPT !.action = "charging",
                                       !.P_charge = max_charge_power(c, s),
                                       !.P_grid_export = RMin(excess_power, c.nel),
                                       !.P_pv_curtail =
                                           IF RGt(excess_power, c.nel)
                                           THEN RSub(excess_power, c.nel) ELSE Zero]
                  ELSE [IdleRow EXCEPT !.action = "charging",
                                       !.P_charge = max_charge_power(c, s),
                                       !.P_pv_curtail = excess_power]
         ELSE LET nil_needed == RSub(max_charge_power(c, s), row.pv_power)
                  nil_power == RMin(nil_needed, c.nil)
              IN  [IdleRow EXCEPT !.action = "charging",
                                  !.P_charge = RAdd(row.pv_power, nil_power),
                                  !.P_grid_import = nil_power]
    ELSE IF row.poa > 5
    THEN IF RGt(row.rrp, c.min_export_price)
         THEN [IdleRow EXCEPT !.action = "pv_export",
                              !.P_grid_export = RMin(row.pv_power, c.nel),
                              !.P_pv_curtail = IF RGt(row.pv_power, c.nel)
                                               THEN RSub(row.pv_power, c.nel) ELSE Zero]
         ELSE [IdleRow EXCEPT !.action = "curtail", !.P_pv_curtail = row.pv_power]
    ELSE IF RGt(row.rrp, q75) /\ RGt(s, RMul(Rat(1, 10), c.E_capacity))
    THEN LET P_grid_export == RMin(max_discharge(c, s), c.nel)
         IN  [IdleRow EXCEPT !.action = "discharging",
                             !.P_discharge = P_grid_export,
                             !.P_grid_export = P_grid_export]
    ELSE IdleRow

\* The ramp clamp of the day engines: P_grid_export alone is replaced.
DayRampClamp(c, P_grid_export, prev) ==
    IF RGt(RAbs(RSub(P_grid_export, prev)), max_ramp(c))
    THEN IF RGt(P_grid_export, prev)
         THEN RAdd(prev, max_ramp(c))
         ELSE RMax(Zero, RSub(prev, max_ramp(c)))
    ELSE P_grid_export

\* The row saved for one period: the decision with the clamped export and the
\* updated, clipped state of charge.
DayRow(c, dec, s, prev) ==
    [dec EXCEPT !.P_grid_export = DayRampClamp(c, dec.P_grid_export, prev),
                !.SOC = SocUpdate(c, s, dec.P_charge, dec.P_discharge)]

DayEngines == {"daytime", "gridlimit"}

\* The constructor of a day engine.
DayInit ==
    /\ alg \in DayEngines
    /\ cfg \in DayConfigs
    /\ data = <<>>
    /\ pc = "new"
    /\ t = 0
    /\ soc = Zero
    /\ prev_grid_export = Zero
    /\ results = <<>>
    /\ revenue = <<>>
    /\ lookahead_periods = 0
    /\ day_idx = 0
    /\ local = <<>>
    /\ prev_day_soc = "unset"
    /\ returned = <<>>

\* DaytimeStorageOptimizer.load_data: rows with pv_power and date.
DayLoadData ==
    /\ pc = "new"
    /\ alg \in DayEngines
    /\ \E poas \in [1..(MaxDays * PeriodsPerDay) -> DayPoaLevels],
          prices \in [1..(MaxDays * PeriodsPerDay) -> DayPriceLevels] :
          data' = [i \in 1..(MaxDays * PeriodsPerDay) |->
                      [poa |-> poas[i], rrp |-> Rat(prices[i], 1000),
                       pv_power |-> PvPower(cfg, poas[i]), date |-> DateOf(i)]]
    /\ pc' = "loaded"
    /\ UNCHANGED <<returned, alg, cfg, t, soc, prev_grid_export, results, revenue,
                   lookahead_periods, dayVars>>

\* optimize_daily up to the loop over the days: the zero-filled result frame.
OptimizeDailyBegin ==
    /\ pc = "loaded"
    /\ alg \in DayEngines
    /\ results' = [i \in 1..Len(data) |-> IdleRow]
    /\ day_idx' = 1
    /\ pc' = "day"
    /\ UNCHANGED <<returned, alg, cfg, data, t, soc, prev_grid_export, revenue,
                   lookahead_periods, local, prev_day_soc>>

\* The state of charge a day starts with.
DayStartSoc(c, day, prev) ==
    IF day = 1 THEN RMul(c.initial_soc, c.E_capacity)
    ELSE IF prev # "unset" THEN prev
    ELSE RMul(c.initial_soc, c.E_capacity)

\* daytime_mask: the rows of the day with POA > 10.
DaytimePeriods(d, day) == {i \in DayIndices(d, day) : d[i].poa > 10}

\* _optimize_single_day for a day without a POA > 10 row: only SOC and SOC_pct
\* of the day's rows are written, and _prev_day_soc is left as it is.
SingleDayNoDaytime ==
    /\ pc = "day"
    /\ alg \in DayEngines
    /\ day_idx <= NumDays(data)
    /\ DaytimePeriods(data, day_idx) = {}
    /\ LET s == DayStartSoc(cfg, day_idx, prev_day_soc)
       IN  results' = [i \in 1..Len(data) |->
                          IF data[i].date = day_idx
                          THEN [results[i] EXCEPT !.SOC = s] ELSE results[i]]
    /\ day_idx' = day_idx + 1
    /\ UNCHANGED <<returned, alg, cfg, data, pc, t, soc, prev_grid_export, revenue,
                   lookahead_periods, local, prev_day_soc>>

\* _optimize_single_day, phases 1 and 2: the starting state of charge and the
\* set charging_periods, chosen among the POA > 10 rows in ascending price.
SingleDaySelect ==
    /\ pc = "day"
    /\ alg \in DayEngines
    /\ day_idx <= NumDays(data)
    /\ DaytimePeriods(data, day_idx) # {}
    /\ LET s == DayStartSoc(cfg, day_idx, prev_day_soc)
           key == [i \in 1..Len(data) |-> data[i].rrp]
       IN  /\ soc' = s
           /\ \E order \in SortedOrders(DaytimePeriods(data, day_idx), key) :
                 local' = [charging_periods |->
                              SelectCharging(cfg, data, order, 1, Zero,
                                             RSub(cfg.E_capacity, s))]
    /\ prev_grid_export' = Zero
    /\ t' = (day_idx - 1) * PeriodsPerDay + 1
    /\ pc' = "exec"
    /\ UNCHANGED <<returned, alg, cfg, data, results, revenue, lookahead_periods, day_idx,
                   prev_day_soc>>

\* One iteration of phase 3 of DaytimeStorageOptimizer._optimize_single_day.
DaytimeStep ==
    /\ pc = "exec"
    /\ alg = "daytime"
    /\ t \in DayIndices(data, day_idx)
    /\ LET dec == DaytimeDecision(cfg, data[t], t \in local.charging_periods, soc,
                                  DayRrp75(data, day_idx))
           row == DayRow(cfg, dec, soc, prev_grid_export)
       IN  /\ results' = [results EXCEPT ![t] = row]
           /\ soc' = row.SOC
           /\ prev_grid_export' = row.P_grid_export
    /\ t' = t + 1
    /\ UNCHANGED <<returned, alg, cfg, data, pc, revenue, lookahead_periods, dayVars>>

\* One iteration of phase 3 of GridLimitedOptimizer._optimize_single_day.
GridLimitedStep ==
    /\ pc = "exec"
    /\ alg = "gridlimit"
    /\ t \in DayIndices(data, day_idx)
    /\ LET dec == GridLimitedDecision(cfg, data[t], t \in local.charging_periods, soc,
                                      DayRrp75(data, day_idx))
           row == DayRow(cfg, dec, soc, prev_grid_export)
       IN  /\ results' = [results EXCEPT ![t] = row]
           /\ soc' = row.SOC
           /\ prev_grid_export' = row.P_grid_export
    /\ t' = t + 1
    /\ UNCHANGED <<returned, alg, cfg, data, pc, revenue, lookahead_periods, dayVars>>

\* End of _optimize_single_day: self._prev_day_soc = soc; next day.
SingleDayEnd ==
    /\ pc = "exec"
    /\ alg \in DayEngines
    /\ t \notin DayIndices(data, day_idx)
    /\ prev_day_soc' = soc
    /\ day_idx' = day_idx + 1
    /\ local' = <<>>
    /\ pc' = "day"
    /\ UNCHANGED <<returned, alg, cfg, data, t, soc, prev_grid_export, results, revenue,
                   lookahead_periods>>

\* DaytimeStorageOptimizer._calculate_revenue: the LGC revenue is credited on
\* exported plus curtailed power.
DayNetRevenue(c, row, r) ==
    RAdd(RSub(RMul(RMul(r.P_grid_export, dt), row.rrp),
              RMul(RMul(r.P_grid_import, dt), row.rrp)),
         RMul(RMul(RAdd(r.P_grid_export, r.P_pv_curtail), dt), c.lgc_price))

\* End of optimize_daily: self.results = results; self._calculate_revenue().
OptimizeDailyEnd ==
    /\ pc = "day"
    /\ alg \in DayEngines
    /\ day_idx = NumDays(data) + 1
    /\ revenue' = [i \in 1..Len(data) |-> DayNetRevenue(cfg, data[i], results[i])]
    /\ returned' = Append(returned, results)
    /\ pc' = "done"
    /\ UNCHANGED <<alg, cfg, data, t, soc, prev_grid_export, results,
                   lookahead_periods, dayVars>>

DayNext ==
    \/ DayLoadData
    \/ OptimizeDailyBegin
    \/ SingleDayNoDaytime
    \/ SingleDaySelect
    \/ DaytimeStep
    \/ GridLimitedStep
    \/ SingleDayEnd
    \/ OptimizeDailyEnd

SpecDay == DayInit /\ [][DayNext]_vars

\* A day engine constructed with initial_soc = 1.0: the first day starts
\* with a full battery.
FullInit ==
    /\ alg \in DayEngines
    /\ cfg \in {[c EXCEPT !.initial_soc = One] : c \in DayConfigs}
    /\ data = <<>>
    /\ pc = "new"
    /\ t = 0
    /\ soc = Zero
    /\ prev_grid_export = Zero
    /\ results = <<>>
    /\ revenue = <<>>
    /\ lookahead_periods = 0
    /\ day_idx = 0
    /\ local = <<>>
    /\ prev_day_soc = "unset"
    /\ returned = <<>>

SpecDayFull == FullInit /\ [][DayNext]_vars

\* optimize_daily called again on the same instance, with the data it has
\* loaded: a new zero-filled frame and the loop over the days from the first
\* one. Nothing resets the attribute _prev_day_soc the earlier call has left.
OptimizeDailyAgain ==
    /\ pc = "done"
    /\ alg \in DayEngines
    /\ Len(returned) < MaxRuns
    /\ results' = [i \in 1..Len(data) |-> IdleRow]
    /\ day_idx' = 1
    /\ pc' = "day"
    /\ UNCHANGED <<returned, alg, cfg, data, t, soc, prev_grid_export, revenue,
                   lookahead_periods, local, prev_day_soc>>

RerunNext ==
    \/ DayLoadData
    \/ OptimizeDailyBegin
    \/ SingleDayNoDaytime
    \/ SingleDaySelect
    \/ DaytimeStep
    \/ GridLimitedStep
    \/ SingleDayEnd
    \/ OptimizeDailyEnd
    \/ OptimizeDailyAgain

SpecRerun == DayInit /\ [][RerunNext]_vars

\* Irradiance levels of the horizons given to GridLimitedOptimizer alone:
\* night, daylight whose generation leaves more than nil to import when
\* charging (POA 11, 5.5 kW), and daylight above nel (POA 24, 12 kW).
GridPoaLevels == {0, 11, 24}

\* GridLimitedOptimizer's load_data (inherited from DaytimeStorageOptimizer).
GridLoadData ==
    /\ pc = "new"
    /\ alg = "gridlimit"
    /\ \E poas \in [1..(MaxDays * PeriodsPerDay) -> GridPoaLevels],
          prices \in [1..(MaxDays * PeriodsPerDay) -> DayPriceLevels] :
          data' = [i \in 1..(MaxDays * PeriodsPerDay) |->
                      [poa |-> poas[i], rrp |-> Rat(prices[i], 1000),
                       pv_power |-> PvPower(cfg, poas[i]), date |-> DateOf(i)]]
    /\ pc' = "loaded"
    /\ UNCHANGED <<returned, alg, cfg, t, soc, prev_grid_export, results, revenue,
                   lookahead_periods, dayVars>>

GridInit == DayInit /\ alg = "gridlimit"

GridNext ==
    \/ GridLoadData
    \/ OptimizeDailyBegin
    \/ SingleDayNoDaytime
    \/ SingleDaySelect
    \/ GridLimitedStep
    \/ SingleDayEnd
    \/ OptimizeDailyEnd

SpecGrid == GridInit /\ [][GridNext]_vars

(***************************************************************************)
(* greedy_discharge_optimization.py and greedy_discharge_v2.py             *)
(***************************************************************************)
\* Irradiance levels of the scripts' input file, W/m2: night, daylight below
\* the charge threshold, and two levels that may charge.
ScriptPoaLevels == {0, 8, 24, 48}

\* Price levels of the scripts' input file, as read from column RRP.
ScriptPriceLevels == {-20, 10, 50}

\* OptimizationConfig, scaled to a 1 kWh battery: powers in kW, energies in
\* kWh, LGC in AUD/MWh.
ScriptConfig ==
    [NEL |-> Int2Rat(8),
     NIL |-> Int2Rat(6),
     BATTERY_CAPACITY |-> Int2Rat(1),
     BATTERY_MAX_CHARGE_POWER |-> Int2Rat(12),
     BATTERY_MAX_DISCHARGE_POWER |-> Int2Rat(12),
     CHARGE_EFFICIENCY |-> Rat(1, 2),
     DISCHARGE_EFFICIENCY |-> Rat(1, 2),
     LGC |-> Int2Rat(-10),
     POA_CHARGE_THRESHOLD |-> 10,
     POA_DAYTIME_THRESHOLD |-> 5,
     INTERVAL_HOURS |-> Rat(5, 60)]

\* df['RRP_MWh']: the price column is multiplied by 1000 when its mean is
\* below 1, and taken as it is otherwise.
RRP_MWh(prices, i) ==
    LET total == RSum([k \in 1..Len(prices) |-> Int2Rat(prices[k])])
    IN  IF RLt(RDiv(total, Int2Rat(Len(prices))), One)
        THEN Int2Rat(prices[i] * 1000)
        ELSE Int2Rat(prices[i])

\* One row of df. The file's columns PV power (kW) and PV energy (kWh) are
\* taken consistent with each other and with POA: POA / 4 kW over 5 minutes.
ScriptRow(c, poa, prices, i) ==
    [POA |-> poa,
     RRP_MWh |-> RRP_MWh(prices, i),
     PV_Power_kW |-> Rat(poa, 4),
     PV_Energy_kWh |-> RMul(Rat(poa, 4), c.INTERVAL_HOURS),
     Can_Charge |-> poa > c.POA_CHARGE_THRESHOLD,
     Is_Daytime |-> poa > c.POA_DAYTIME_THRESHOLD,
     date |-> DateOf(i)]

ScriptEngines == {"gdo", "v2"}

\* A script at its start: configuration built, nothing loaded.
ScriptInit ==
    /\ alg \in ScriptEngines
    /\ cfg = ScriptConfig
    /\ data = <<>>
    /\ pc = "new"
    /\ t = 0
    /\ soc = Zero
    /\ prev_grid_export = Zero
    /\ results = <<>>
    /\ revenue = <<>>
    /\ lookahead_periods = 0
    /\ day_idx = 0
    /\ local = <<>>
    /\ prev_day_soc = "unset"
    /\ returned = <<>>

\* The data section of a script: df sorted by time with its derived columns.
ScriptLoadData ==
    /\ pc = "new"
    /\ alg \in ScriptEngines
    /\ \E poas \in [1..(MaxDays * PeriodsPerDay) -> ScriptPoaLevels],
          prices \in [1..(MaxDays * PeriodsPerDay) -> ScriptPriceLevels] :
          data' = [i \in 1..(MaxDays * PeriodsPerDay) |->
                      ScriptRow(cfg, poas[i], prices, i)]
    /\ pc' = "loaded"
    /\ UNCHANGED <<returned, alg, cfg, t, soc, prev_grid_export, results, revenue,
                   lookahead_periods, dayVars>>

\* results = []; soc = config.BATTERY_CAPACITY * 0.5; first day of the loop.
ScriptBegin ==
    /\ pc = "loaded"
    /\ alg \in ScriptEngines
    /\ soc' = RMul(cfg.BATTERY_CAPACITY, Rat(1, 2))
    /\ results' = <<>>
    /\ day_idx' = 1
    /\ pc' = "day"
    /\ UNCHANGED <<returned, alg, cfg, data, t, prev_grid_export, revenue,
                   lookahead_periods, local, prev_day_soc>>

\* charge_from_pv: PV energy first, within the charge power and the headroom.
ChargeFromPv(c, row, s) ==
    RMin3(row.PV_Energy_kWh,
          RMul(c.BATTERY_MAX_CHARGE_POWER, c.INTERVAL_HOURS),
          RDiv(RSub(c.BATTERY_CAPACITY, s), c.CHARGE_EFFICIENCY))

\* charge_from_grid: the grid tops the period up when more than 0.01 kWh of
\* headroom (remaining_capacity) and of charge energy (remaining_charge_power)
\* is left after charge_from_pv.
ChargeFromGrid(c, remaining_capacity, remaining_charge_power) ==
    IF RGt(remaining_capacity, Rat(1, 100)) /\ RGt(remaining_charge_power, Rat(1, 100))
    THEN RMin3(RMul(c.NIL, c.INTERVAL_HOURS), remaining_charge_power,
               RDiv(remaining_capacity, c.CHARGE_EFFICIENCY))
    ELSE Zero

\* The energies of a charging period and the state of charge after them.
ChargeTotals(c, s, charge_from_pv, charge_from_grid) ==
    [charge_from_pv |-> charge_from_pv,
     charge_from_grid |-> charge_from_grid,
     soc |-> RAdd(s, RMul(RAdd(charge_from_pv, charge_from_grid), c.CHARGE_EFFICIENCY))]

\* The charge with charge_from_pv given: the grid share and the totals.
ChargeWithPv(c, s, charge_from_pv) ==
    ChargeTotals(c, s, charge_from_pv,
        ChargeFromGrid(c,
            RSub(RSub(c.BATTERY_CAPACITY, s), RMul(charge_from_pv, c.CHARGE_EFFICIENCY)),
            RSub(RMul(c.BATTERY_MAX_CHARGE_POWER, c.INTERVAL_HOURS), charge_from_pv)))

\* The energies one period charges and the state of charge after it.
ChargeAmounts(c, row, s) == ChargeWithPv(c, s, ChargeFromPv(c, row, s))

\* A record put in front of the records of the rest of a loop.
ChargePrepend(row, rest) == [rows |-> <<row>> \o rest.rows, soc |-> rest.soc]

RECURSIVE ChargeLoop(_, _, _, _, _, _)

\* The iteration of charge_battery that charges: a holds its energies.
ChargeLoopCharging(c, d, order, k, a) ==
    ChargePrepend([index |-> order[k], Charge_PV_kWh |-> a.charge_from_pv,
                   Charge_Grid_kWh |-> a.charge_from_grid, SOC_kWh |-> a.soc,
                   Action |-> "Charging"],
                  ChargeLoop(c, d, order, k + 1, a.soc,
                             RGe(a.soc, RMul(c.BATTERY_CAPACITY, Rat(999, 1000)))))

\* The loop of charge_battery over the sorted chargeable rows from position k
\* on; full is set once the loop has met soc >= 0.999 capacity.
ChargeLoop(c, d, order, k, s, full) ==
    IF k > Len(order) THEN [rows |-> <<>>, soc |-> s]
    ELSE IF full \/ RGe(s, c.BATTERY_CAPACITY)
    THEN ChargePrepend([index |-> order[k], Charge_PV_kWh |-> Zero,
                        Charge_Grid_kWh |-> Zero, SOC_kWh |-> s,
                        Action |-> "Battery_Full"],
                       ChargeLoop(c, d, order, k + 1, s, full))
    ELSE ChargeLoopCharging(c, d, order, k, ChargeAmounts(c, d[order[k]], s))

SetMin(S) == CHOOSE x \in S : \A y \in S : x <= y
SetMax(S) == CHOOSE x \in S : \A y \in S : x >= y

\* The rows of the day inside the discharge window, which runs from the first
\* to the last Is_Daytime row of the day and the next day together.
DischargeWindow(d, day) ==
    LET combined == DayIndices(d, day) \cup DayIndices(d, day + 1)
        daytime == {i \in combined : d[i].Is_Daytime}
    IN  IF daytime = {} THEN {}
        ELSE {i \in DayIndices(d, day) : SetMin(daytime) <= i /\ i <= SetMax(daytime)}

\* The energy one period discharges and the PV energy it exports, for a
\* period priced above LGC with the battery not empty.
DischargeAmounts(c, row, s) ==
    LET available_discharge == RMul(s, c.DISCHARGE_EFFICIENCY)
    IN  IF row.Is_Daytime
        THEN IF RGe(row.PV_Power_kW, c.NEL)
             THEN [Export_PV_kWh |-> RMul(c.NEL, c.INTERVAL_HOURS),
                   Discharge_kWh |-> Zero, Action |-> "PV_Only"]
             ELSE LET needed_power == RSub(c.NEL, row.PV_Power_kW)
                      max_discharge_power ==
                          RMin(c.BATTERY_MAX_DISCHARGE_POWER, needed_power)
                      max_discharge_energy == RMul(max_discharge_power, c.INTERVAL_HOURS)
                  IN  [Export_PV_kWh |-> RMul(row.PV_Power_kW, c.INTERVAL_HOURS),
                       Discharge_kWh |->
                           RMin(max_discharge_energy,
                                RDiv(available_discharge, c.DISCHARGE_EFFICIENCY)),
                       Action |-> "PV_Battery_Mix"]
        ELSE LET max_discharge_energy ==
                     RMul(c.BATTERY_MAX_DISCHARGE_POWER, c.INTERVAL_HOURS)
             IN  [Export_PV_kWh |-> Zero,
                  Discharge_kWh |->
                      RMin(max_discharge_energy,
                           RDiv(available_discharge, c.DISCHARGE_EFFICIENCY)),
                  Action |-> "Battery_Only"]

SocAfterDischarge_Unclamped(c, s, discharge_energy) ==
    RSub(s, RDiv(discharge_energy, c.DISCHARGE_EFFICIENCY))

\* soc -= discharge_energy / DISCHARGE_EFFICIENCY; soc = max(0, soc)
SocAfterDischarge(c, s, discharge_energy) ==
    RMax(Zero, RSub(s, RDiv(discharge_energy, c.DISCHARGE_EFFICIENCY)))

RECURSIVE DischargeLoop(_, _, _, _, _)

\* The iteration of discharge_battery_greedy that discharges: a holds its
\* energies and s2 the state of charge after it.
DischargeLoopActing(c, d, order, k, a, s2) ==
    ChargePrepend([index |-> order[k], Discharge_kWh |-> a.Discharge_kWh,
                   Export_PV_kWh |-> a.Export_PV_kWh,
                   Export_Battery_kWh |-> RMul(a.Discharge_kWh, c.DISCHARGE_EFFICIENCY),
                   SOC_kWh |-> s2, Action |-> a.Action],
                  DischargeLoop(c, d, order, k + 1, s2))

\* The discharging iteration with its energies a: the state of charge after.
DischargeLoopStep(c, d, order, k, s, a) ==
    DischargeLoopActing(c, d, order, k, a, SocAfterDischarge(c, s, a.Discharge_kWh))

\* The loop of discharge_battery_greedy over the sorted candidates from
\* position k on. Once soc <= 0.01 every later row is Battery_Empty.
DischargeLoop(c, d, order, k, s) ==
    IF k > Len(order) THEN [rows |-> <<>>, soc |-> s]
    ELSE IF RLe(s, Rat(1, 100))
    THEN ChargePrepend([index |-> order[k], Discharge_kWh |-> Zero,
                        Export_PV_kWh |-> Zero, Export_Battery_kWh |-> Zero,
                        SOC_kWh |-> Zero, Action |-> "Battery_Empty"],
                       DischargeLoop(c, d, order, k + 1, s))
    ELSE IF RLe(d[order[k]].RRP_MWh, c.LGC)
    THEN ChargePrepend([index |-> order[k], Discharge_kWh |-> Zero,
                        Export_PV_kWh |-> Zero, Export_Battery_kWh |-> Zero,
                        SOC_kWh |-> s, Action |-> "Price_Too_Low"],
                       DischargeLoop(c, d, order, k + 1, s))
    ELSE DischargeLoopStep(c, d, order, k, s, DischargeAmounts(c, d[order[k]], s))

\* idx in df['index'].values, and the first row of df with that index.
HasIndex(df, i) == \E k \in 1..Len(df) : df[k].index = i
RowOf(df, i) == df[SetMin({k \in 1..Len(df) : df[k].index = i})]

\* charge_battery(day_data, soc) of the main loop of
\* greedy_discharge_optimization.py.
GdoChargeBattery ==
    /\ pc = "day"
    /\ alg = "gdo"
    /\ day_idx <= NumDays(data)
    /\ LET chargeable == {i \in DayIndices(data, day_idx) : data[i].Can_Charge}
           key == [i \in 1..Len(data) |-> data[i].RRP_MWh]
       IN  \E order \in SortedOrders(chargeable, key) :
              LET r == ChargeLoop(cfg, data, order, 1, soc, FALSE)
              IN  local' = [charge_df |-> r.rows, soc_after_charge |-> r.soc]
    /\ pc' = "charged"
    /\ UNCHANGED <<returned, alg, cfg, data, t, soc, prev_grid_export, results, revenue,
                   lookahead_periods, day_idx, prev_day_soc>>

\* discharge_battery_greedy(day_data, next_day_data, soc_after_charge).
GdoDischargeBatteryGreedy ==
    /\ pc = "charged"
    /\ alg = "gdo"
    /\ LET key == [i \in 1..Len(data) |-> RNeg(data[i].RRP_MWh)]
       IN  \E order \in SortedOrders(DischargeWindow(data, day_idx), key) :
              LET r == DischargeLoop(cfg, data, order, 1, local.soc_after_charge)
              IN  local' = [charge_df |-> local.charge_df,
                            soc_after_charge |-> local.soc_after_charge,
                            discharge_df |-> r.rows,
                            soc_after_discharge |-> r.soc]
    /\ pc' = "discharged"
    /\ UNCHANGED <<returned, alg, cfg, data, t, soc, prev_grid_export, results, revenue,
                   lookahead_periods, day_idx, prev_day_soc>>

\* The result row the main loop of greedy_discharge_optimization.py builds
\* for row i of the day from the charge and the discharge records.
GdoMergeRow(c, d, i, s, charge_df, discharge_df) ==
    LET row == d[i]
        nel_energy == RMul(c.NEL, c.INTERVAL_HOURS)
        sells == RGt(row.RRP_MWh, c.LGC)
        result == [index |-> i, Charge_PV_kWh |-> Zero, Charge_Grid_kWh |-> Zero,
                   Discharge_kWh |-> Zero, Export_PV_kWh |-> Zero,
                   Export_Battery_kWh |-> Zero, Curtail_kWh |-> Zero,
                   SOC_kWh |-> s, Action |-> "Idle"]
        charged ==
            IF HasIndex(charge_df, i)
            THEN LET charge_row == RowOf(charge_df, i)
                     remaining_pv == RSub(row.PV_Energy_kWh, charge_row.Charge_PV_kWh)
                 IN  [result EXCEPT
                         !.Charge_PV_kWh = charge_row.Charge_PV_kWh,
                         !.Charge_Grid_kWh = charge_row.Charge_Grid_kWh,
                         !.SOC_kWh = charge_row.SOC_kWh,
                         !.Action = charge_row.Action,
                         !.Export_PV_kWh =
                             IF sells THEN RMin(remaining_pv, nel_energy) ELSE Zero,
                         !.Curtail_kWh =
                             IF sells THEN RMax(Zero, RSub(remaining_pv, nel_energy))
                             ELSE remaining_pv]
            ELSE result
        discharged ==
            IF HasIndex(discharge_df, i)
            THEN LET discharge_row == RowOf(discharge_df, i)
                     remaining_pv == RSub(row.PV_Energy_kWh, discharge_row.Export_PV_kWh)
                 IN  [charged EXCEPT
                         !.Discharge_kWh = discharge_row.Discharge_kWh,
                         !.Export_PV_kWh = discharge_row.Export_PV_kWh,
                         !.Export_Battery_kWh = discharge_row.Export_Battery_kWh,
                         !.SOC_kWh = discharge_row.SOC_kWh,
                         !.Action = discharge_row.Action,
                         !.Curtail_kWh =
                             IF RGt(remaining_pv, Zero) THEN remaining_pv ELSE @]
            ELSE charged
    IN  IF discharged.Action = "Idle"
        THEN [discharged EXCEPT
                 !.Export_PV_kWh =
                     IF sells THEN RMin(row.PV_Energy_kWh, nel_energy) ELSE @,
                 !.Curtail_kWh =
                     IF sells THEN RMax(Zero, RSub(row.PV_Energy_kWh, nel_energy))
                     ELSE row.PV_Energy_kWh]
        ELSE discharged

\* The merge loop of one day and "soc = soc_after_discharge".
GdoMergeDay ==
    /\ pc = "discharged"
    /\ alg = "gdo"
    /\ results' = results \o
           [k \in 1..Cardinality(DayIndices(data, day_idx)) |->
               GdoMergeRow(cfg, data, (day_idx - 1) * PeriodsPerDay + k, soc,
                           local.charge_df, local.discharge_df)]
    /\ soc' = local.soc_after_discharge
    /\ day_idx' = day_idx + 1
    /\ local' = <<>>
    /\ pc' = "day"
    /\ UNCHANGED <<returned, alg, cfg, data, t, prev_grid_export, revenue,
                   lookahead_periods, prev_day_soc>>

\* results_df['Net_Revenue'] of one row, AUD.
ScriptNetRevenue(row, r) ==
    RSub(RDiv(RMul(RAdd(r.Export_PV_kWh, r.Export_Battery_kWh), row.RRP_MWh),
              Int2Rat(1000)),
         RDiv(RMul(r.Charge_Grid_kWh, row.RRP_MWh), Int2Rat(1000)))

\* The result section of a script: results_df with its revenue columns.
ScriptRevenue ==
    /\ pc = "day"
    /\ alg \in ScriptEngines
    /\ day_idx = NumDays(data) + 1
    /\ revenue' = [k \in 1..Len(results) |->
                      ScriptNetRevenue(data[results[k].index], results[k])]
    /\ pc' = "done"
    /\ UNCHANGED <<returned, alg, cfg, data, t, soc, prev_grid_export, results,
                   lookahead_periods, dayVars>>

\* A split that curtails nothing: the generation above the export is lost.
PvSplit_WithoutCurtail(pv_energy, export_pv) ==
    [export_pv |-> export_pv, curtail |-> Zero]

\* The PV energy a period sells and curtails when the battery does not act,
\* export_pv being what NEL admits of it.
PvSplit(pv_energy, export_pv) ==
    [export_pv |-> export_pv, curtail |-> RMax(Zero, RSub(pv_energy, export_pv))]

PvOnly_IgnoringPrice(c, row, pv_energy) ==
    PvSplit(pv_energy, RMin(pv_energy, RMul(c.NEL, c.INTERVAL_HOURS)))

\* Export up to NEL above LGC, everything curtailed otherwise.
PvOnly(c, row, pv_energy) ==
    IF RGt(row.RRP_MWh, c.LGC)
    THEN PvSplit(pv_energy, RMin(pv_energy, RMul(c.NEL, c.INTERVAL_HOURS)))
    ELSE [export_pv |-> Zero, curtail |-> pv_energy]

\* A row of day_results of optimize_daily of greedy_discharge_v2.py.
V2Row(idx, cpv, cgrid, discharge, export_pv, export_bat, curtail, soc_kwh, action) ==
    [index |-> idx, Charge_PV_kWh |-> cpv, Charge_Grid_kWh |-> cgrid,
     Discharge_kWh |-> discharge, Export_PV_kWh |-> export_pv,
     Export_Battery_kWh |-> export_bat, Curtail_kWh |-> curtail,
     SOC_kWh |-> soc_kwh, Action |-> action]

\* The row of a period whose PV is the only thing handled: pv is its split.
V2PvRow(idx, pv, soc_kwh, action) ==
    V2Row(idx, Zero, Zero, Zero, pv.export_pv, Zero, pv.curtail, soc_kwh, action)

\* The row phase 1 records for a charged period: a holds the charged energies
\* and the state of charge after them, pv the split of the PV left over.
V2ChargeRow(idx, a, pv) ==
    V2Row(idx, a.charge_from_pv, a.charge_from_grid, Zero, pv.export_pv, Zero,
          pv.curtail, a.soc, "Charging")

RECURSIVE V2ChargeLoop(_, _, _, _, _)

\* The iteration of phase 1 that charges with the energies a.
V2ChargeLoopCharging(c, d, order, k, a) ==
    ChargePrepend(
        V2ChargeRow(order[k], a,
                    PvOnly(c, d[order[k]],
                           RSub(d[order[k]].PV_Energy_kWh, a.charge_from_pv))),
        V2ChargeLoop(c, d, order, k + 1, a.soc))

\* Phase 1 of optimize_daily of greedy_discharge_v2.py: the loop over the
\* sorted chargeable rows from position k on.
V2ChargeLoop(c, d, order, k, s) ==
    IF k > Len(order) \/ RGe(s, RMul(c.BATTERY_CAPACITY, Rat(999, 1000)))
    THEN [rows |-> <<>>, soc |-> s]
    ELSE V2ChargeLoopCharging(c, d, order, k, ChargeAmounts(c, d[order[k]], s))

RECURSIVE V2DischargeLoop(_, _, _, _, _)

\* The iteration of phase 2 that lets the battery act: a holds its energies
\* and s2 the state of charge after it.
V2DischargeLoopActing(c, d, order, k, a, s2) ==
    ChargePrepend(
        V2Row(order[k], Zero, Zero, a.Discharge_kWh, a.Export_PV_kWh,
              RMul(a.Discharge_kWh, c.DISCHARGE_EFFICIENCY),
              IF d[order[k]].Is_Daytime
              THEN RSub(d[order[k]].PV_Energy_kWh, a.Export_PV_kWh)
              ELSE d[order[k]].PV_Energy_kWh,
              s2, a.Action),
        V2DischargeLoop(c, d, order, k + 1, s2))

\* The acting iteration with its energies a: the state of charge after.
V2DischargeLoopStep(c, d, order, k, s, a) ==
    V2DischargeLoopActing(c, d, order, k, a, SocAfterDischarge(c, s, a.Discharge_kWh))

\* Phase 2 of optimize_daily: the loop over the sorted discharge candidates
\* from position k on.
V2DischargeLoop(c, d, order, k, s) ==
    IF k > Len(order) THEN [rows |-> <<>>, soc |-> s]
    ELSE IF RLe(s, Rat(1, 100))
    THEN ChargePrepend(
             V2PvRow(order[k], PvOnly(c, d[order[k]], d[order[k]].PV_Energy_kWh),
                     Zero, "Battery_Empty"),
             V2DischargeLoop(c, d, order, k + 1, s))
    ELSE IF RLe(d[order[k]].RRP_MWh, c.LGC)
    THEN ChargePrepend(
             V2Row(order[k], Zero, Zero, Zero, Zero, Zero,
                   d[order[k]].PV_Energy_kWh, s, "Price_Too_Low"),
             V2DischargeLoop(c, d, order, k + 1, s))
    ELSE V2DischargeLoopStep(c, d, order, k, s, DischargeAmounts(c, d[order[k]], s))

\* Phase 3 of optimize_daily: the rows of the day, in time order from position
\* k on, that neither phase has recorded.
RECURSIVE V2Remaining(_, _, _, _, _, _)
V2Remaining(c, d, day, k, processed_indices, s) ==
    IF k > Cardinality(DayIndices(d, day)) THEN <<>>
    ELSE (IF ((day - 1) * PeriodsPerDay + k) \in processed_indices THEN <<>>
          ELSE <<V2PvRow((day - 1) * PeriodsPerDay + k,
                         PvOnly(c, d[(day - 1) * PeriodsPerDay + k],
                                d[(day - 1) * PeriodsPerDay + k].PV_Energy_kWh),
                         s, "PV_Only_Idle")>>)
         \o V2Remaining(c, d, day, k + 1, processed_indices, s)

\* {r['index'] for r in day_results}
IndexSet(df) == {df[k].index : k \in 1..Len(df)}

\* Phase 1 of optimize_daily with the sorted chargeable rows in corder.
V2Phase1(c, d, s, corder) ==
    IF Len(corder) > 0 /\ RLt(s, c.BATTERY_CAPACITY)
    THEN V2ChargeLoop(c, d, corder, 1, s)
    ELSE [rows |-> <<>>, soc |-> s]

V2DischargeCandidates_KeepingCharged(d, day, charge) ==
    DischargeWindow(d, day)

\* discharge_candidates: the rows of the window that phase 1 did not charge.
V2DischargeCandidates(d, day, charge) ==
    DischargeWindow(d, day) \ IndexSet(charge.rows)

\* Phase 2 of optimize_daily with the sorted candidates in dorder.
V2Phase2(c, d, charge, dorder) ==
    IF Len(dorder) > 0 /\ RGt(charge.soc, Rat(1, 100))
    THEN V2DischargeLoop(c, d, dorder, 1, charge.soc)
    ELSE [rows |-> <<>>, soc |-> charge.soc]

\* Phase 3 and the value optimize_daily returns: day_results and soc.
V2Phase3(c, d, day, day_results, s) ==
    [day_results |->
         day_results \o V2Remaining(c, d, day, 1, IndexSet(day_results), s),
     soc_end |-> s]

\* The phases joined: the records of phases 1 and 2, then phase 3.
V2Finish(charge, discharge) ==
    V2Phase3(cfg, data, day_idx, charge.rows \o discharge.rows, discharge.soc)

\* optimize_daily from phase 2 on, phase 1 having produced charge.
V2AfterCharge(charge) ==
    LET high == [i \in 1..Len(data) |-> RNeg(data[i].RRP_MWh)]
    IN  \E dorder \in SortedOrders(V2DischargeCandidates(data, day_idx, charge), high) :
           local' = V2Finish(charge, V2Phase2(cfg, data, charge, dorder))

\* optimize_daily(day_data, next_day_data, soc) of greedy_discharge_v2.py.
V2OptimizeDaily ==
    /\ pc = "day"
    /\ alg = "v2"
    /\ day_idx <= NumDays(data)
    /\ LET low == [i \in 1..Len(data) |-> data[i].RRP_MWh]
       IN  \E corder \in SortedOrders({i \in DayIndices(data, day_idx) :
                                         data[i].Can_Charge}, low) :
              V2AfterCharge(V2Phase1(cfg, data, soc, corder))
    /\ pc' = "optimized"
    /\ UNCHANGED <<returned, alg, cfg, data, t, soc, prev_grid_export, results, revenue,
                   lookahead_periods, day_idx, prev_day_soc>>

\* The result row the main loop of greedy_discharge_v2.py appends for row i.
V2MergeRow(d, i, s, day_results) ==
    IF HasIndex(day_results, i) THEN RowOf(day_results, i)
    ELSE [index |-> i, Charge_PV_kWh |-> Zero, Charge_Grid_kWh |-> Zero,
          Discharge_kWh |-> Zero, Export_PV_kWh |-> Zero,
          Export_Battery_kWh |-> Zero, Curtail_kWh |-> d[i].PV_Energy_kWh,
          SOC_kWh |-> s, Action |-> "Error"]

\* The merge loop of one day and "soc = soc_end".
V2MergeDay ==
    /\ pc = "optimized"
    /\ alg = "v2"
    /\ results' = results \o
           [k \in 1..Cardinality(DayIndices(data, day_idx)) |->
               V2MergeRow(data, (day_idx - 1) * PeriodsPerDay + k, soc,
                          local.day_results)]
    /\ soc' = local.soc_end
    /\ day_idx' = day_idx + 1
    /\ pc' = "day"
    /\ local' = <<>>
    /\ UNCHANGED <<returned, alg, cfg, data, t, prev_grid_export, revenue,
                   lookahead_periods, prev_day_soc>>

GdoNext ==
    \/ ScriptLoadData
    \/ ScriptBegin
    \/ GdoChargeBattery
    \/ GdoDischargeBatteryGreedy
    \/ GdoMergeDay
    \/ ScriptRevenue

V2Next ==
    \/ ScriptLoadData
    \/ ScriptBegin
    \/ V2OptimizeDaily
    \/ V2MergeDay
    \/ ScriptRevenue

GdoInit == ScriptInit /\ alg = "gdo"

V2Init == ScriptInit /\ alg = "v2"

SpecGdo == GdoInit /\ [][GdoNext]_vars

SpecV2 == V2Init /\ [][V2Next]_vars

\* Either script, from its start to its result section.
ScriptNext ==
    \/ ScriptLoadData
    \/ ScriptBegin
    \/ GdoChargeBattery
    \/ GdoDischargeBatteryGreedy
    \/ GdoMergeDay
    \/ V2OptimizeDaily
    \/ V2MergeDay
    \/ ScriptRevenue

SpecScript == ScriptInit /\ [][ScriptNext]_vars

(***************************************************************************)
(* The exact formulation: EnergyStorageOptimizer                           *)
(* (perfect_revenue_optimization.py) and GurobiEnergyOptimizer             *)
(* (gurobi_energy_optimization.py)                                         *)
(***************************************************************************)
ExactEngines == {"pulp", "gurobi"}

\* Irradiance and price levels of the horizons given to the exact engines.
ExactPoaLevels == {0, 24}
ExactPriceLevels == {-20, -5, 50}

\* Constructor arguments of the exact engines. With unit efficiencies every
\* bound of the formulation is a multiple of 6 kW (0.5 kWh in 5 minutes), so
\* the schedules on PowerLevels include a vertex of each face of the
\* feasible region.
ExactConfigs ==
    [lgc_price : {Rat(10, 1000)},
     poa_to_power_ratio : {Int2Rat(500)},
     P_charge_max : {Int2Rat(12)},
     P_discharge_max : {Int2Rat(12)},
     E_capacity : {Int2Rat(2)},
     eta_c : {One},
     eta_d : {One},
     ramp_rate : {Rat(6, 300)},
     initial_soc : {Rat(1, 2), One}]

\* The values a power variable of the formulation takes in the model, kW.
PowerLevels == {Int2Rat(6 * k) : k \in 0..8}

\* The variables of one period with their bounds: lowBound = 0 everywhere,
\* upBound only on P_charge and P_discharge; the two indicators are binary.
ExactVariables(c) ==
    [P_charge : {p \in PowerLevels : RLe(p, c.P_charge_max)},
     P_discharge : {p \in PowerLevels : RLe(p, c.P_discharge_max)},
     P_grid_import : {p \in PowerLevels : RLe(p, c.P_charge_max)},
     P_grid_export : PowerLevels,
     is_charging : {0, 1},
     is_discharging : {0, 1}]

\* Constraint 2, SOC_Balance_t: SOC[t+1] from SOC[t] = s.
SocBalance(c, s, x) ==
    RSub(RAdd(s, RMul(RMul(x.P_charge, dt), c.eta_c)),
         RDiv(RMul(x.P_discharge, dt), c.eta_d))

\* The bounds of the variable SOC[t+1].
SocBounds(c, s, x) ==
    RGe(SocBalance(c, s, x), Zero) /\ RLe(SocBalance(c, s, x), c.E_capacity)

\* Constraint 3, Power_Balance_t: an equality without a curtailment term.
PowerBalance(row, x) ==
    RAdd(RAdd(row.pv_power, x.P_discharge), x.P_grid_import)
        = RAdd(x.P_charge, x.P_grid_export)

NoSimultaneousChargeDischarge_Dropped(x) == TRUE

\* Constraint 4, No_Simultaneous_Charge_Discharge_t.
NoSimultaneousChargeDischarge(x) == x.is_charging + x.is_discharging <= 1

\* M = max(battery_max_charge, battery_max_discharge)
BigM(c) == RMax(c.P_charge_max, c.P_discharge_max)

\* Constraint 4, Charge_Logic_t and Discharge_Logic_t.
ChargeDischargeLogic(c, x) ==
    /\ RLe(x.P_charge, RMul(BigM(c), Int2Rat(x.is_charging)))
    /\ RLe(x.P_discharge, RMul(BigM(c), Int2Rat(x.is_discharging)))

\* Constraint 5, Ramp_Up_t and Ramp_Down_t, posted for every period but the
\* first of the horizon.
RampLimit(c, first, prev, x) ==
    first \/ (/\ RLe(RSub(x.P_grid_export, prev), max_ramp(c))
              /\ RLe(RSub(prev, x.P_grid_export), max_ramp(c)))

\* Constraint 6, Min_Export_Price_t.
MinExportPrice(c, row, x) ==
    RLt(row.rrp, RNeg(c.lgc_price)) => x.P_grid_export = Zero

\* Constraint 7, Max_Charge_Power_t.
MaxChargePower(c, x) == RLe(x.P_charge, c.P_charge_max)

\* The values of the variables of one period that satisfy every constraint
\* of the period, SOC[t] being s and the previous export prev.
ExactChoices(c, row, first, s, prev) ==
    {x \in ExactVariables(c) :
        /\ NoSimultaneousChargeDischarge(x)
        /\ ChargeDischargeLogic(c, x)
        /\ PowerBalance(row, x)
        /\ MaxChargePower(c, x)
        /\ MinExportPrice(c, row, x)
        /\ RampLimit(c, first, prev, x)
        /\ SocBounds(c, s, x)}

\* The term of period t in the objective Total_Revenue.
PeriodRevenue(c, row, x) ==
    RAdd(RSub(RMul(RMul(x.P_grid_export, dt), row.rrp),
              RMul(RMul(x.P_grid_import, dt), row.rrp)),
         RMul(RMul(row.pv_power, dt), c.lgc_price))

\* The largest element of a non-empty set of rationals.
RMaxSet(S) == CHOOSE v \in S : \A w \in S : RGe(v, w)

\* The best objective over the periods k..n, SOC[k] being s: the empty set
\* when no assignment satisfies the constraints, a singleton otherwise.
RECURSIVE ExactBest(_, _, _, _, _)

\* The objective values of the assignments of periods k..n that choose x in
\* period k and continue optimally.
ExactValuesWith(c, d, k, s, x) ==
    {RAdd(PeriodRevenue(c, d[k], x), r) :
        r \in ExactBest(c, d, k + 1, SocBalance(c, s, x), x.P_grid_export)}

\* The singleton of the largest value of a set, the empty set for none.
BestOf(vals) == IF vals = {} THEN {} ELSE {RMaxSet(vals)}

ExactBest(c, d, k, s, prev) ==
    IF k > Len(d) THEN {Zero}
    ELSE BestOf(UNION {ExactValuesWith(c, d, k, s, x) :
                          x \in ExactChoices(c, d[k], k = 1, s, prev)})

\* solve(): the status of the problem and the value of its objective.
ExactSolution(best) ==
    IF best = {} THEN [status |-> "Infeasible"]
    ELSE [status |-> "Optimal", objective |-> RMaxSet(best)]

\* The constructor of an exact engine.
ExactInit ==
    /\ alg \in ExactEngines
    /\ cfg \in ExactConfigs
    /\ data = <<>>
    /\ pc = "new"
    /\ t = 0
    /\ soc = Zero
    /\ prev_grid_export = Zero
    /\ results = <<>>
    /\ revenue = <<>>
    /\ lookahead_periods = 0
    /\ day_idx = 0
    /\ local = <<>>
    /\ prev_day_soc = "unset"
    /\ returned = <<>>

\* The horizons of ExactPeriods periods built from the given levels.
ExactHorizons(c) ==
    {[i \in 1..ExactPeriods |-> DataRow(c, poas[i], prices[i])] :
        poas \in [1..ExactPeriods -> ExactPoaLevels],
        prices \in [1..ExactPeriods -> ExactPriceLevels]}

\* EnergyStorageOptimizer.load_data / GurobiEnergyOptimizer.load_data.
ExactLoadData ==
    /\ pc = "new"
    /\ alg \in ExactEngines
    /\ data' \in ExactHorizons(cfg)
    /\ pc' = "loaded"
    /\ UNCHANGED <<returned, alg, cfg, t, soc, prev_grid_export, results, revenue,
                   lookahead_periods, dayVars>>

\* build_optimization_model: the problem is posed; constraint 1, Initial_SOC,
\* fixes SOC[0].
ExactBuildModel ==
    /\ pc = "loaded"
    /\ alg \in ExactEngines
    /\ soc' = RMul(cfg.initial_soc, cfg.E_capacity)
    /\ prev_grid_export' = Zero
    /\ results' = <<>>
    /\ t' = 1
    /\ pc' = "built"
    /\ UNCHANGED <<returned, alg, cfg, data, revenue, lookahead_periods, dayVars>>

\* The solver gives the variables of period t values that satisfy the
\* constraints of the period.
ExactAssignPeriod ==
    /\ pc = "built"
    /\ alg \in ExactEngines
    /\ t <= Len(data)
    /\ \E x \in ExactChoices(cfg, data[t], t = 1, soc, prev_grid_export) :
          /\ results' = Append(results, x)
          /\ soc' = SocBalance(cfg, soc, x)
          /\ prev_grid_export' = x.P_grid_export
    /\ t' = t + 1
    /\ UNCHANGED <<returned, alg, cfg, data, pc, revenue, lookahead_periods, dayVars>>

\* Every period has its values: the assignment is feasible; net_revenue is
\* the objective term of each period.
ExactFeasible ==
    /\ pc = "built"
    /\ alg \in ExactEngines
    /\ t = Len(data) + 1
    /\ revenue' = [i \in 1..Len(data) |-> PeriodRevenue(cfg, data[i], results[i])]
    /\ pc' = "feasible"
    /\ UNCHANGED <<returned, alg, cfg, data, t, soc, prev_grid_export, results,
                   lookahead_periods, dayVars>>

\* solve() on the built problem: status and objective value.
ExactSolve ==
    /\ pc = "built"
    /\ alg \in ExactEngines
    /\ t = 1
    /\ local' = ExactSolution(ExactBest(cfg, data, 1, soc, Zero))
    /\ pc' = "solved"
    /\ UNCHANGED <<returned, alg, cfg, data, t, soc, prev_grid_export, results, revenue,
                   lookahead_periods, day_idx, prev_day_soc>>

\* solve() / model.optimize() stopped by its time limit before an optimum is
\* proven (timeLimit of PULP_CBC_CMD, TimeLimit of the Gurobi model).
ExactSolveStopped ==
    /\ pc = "built"
    /\ alg \in ExactEngines
    /\ t = 1
    /\ local' = [status |-> IF alg = "pulp" THEN "Not Solved" ELSE "TIME_LIMIT"]
    /\ pc' = "solved"
    /\ UNCHANGED <<returned, alg, cfg, data, t, soc, prev_grid_export, results, revenue,
                   lookahead_periods, day_idx, prev_day_soc>>

\* The assignments of the periods k..n that satisfy every constraint, SOC[k]
\* being s and the previous export prev.
RECURSIVE ExactAssignments(_, _, _, _, _)
ExactAssignments(c, d, k, s, prev) ==
    IF k > Len(d) THEN {<<>>}
    ELSE UNION {{<<x>> \o rest :
                    rest \in ExactAssignments(c, d, k + 1, SocBalance(c, s, x),
                                              x.P_grid_export)} :
                x \in ExactChoices(c, d[k], k = 1, s, prev)}

\* The objective value of an assignment.
ExactObjective(c, d, a) == RSum([i \in 1..Len(a) |-> PeriodRevenue(c, d[i], a[i])])

\* The value of the variable SOC[i - 1] under the assignment a.
RECURSIVE ExactSoc(_, _, _)
ExactSoc(c, a, i) ==
    IF i = 1 THEN RMul(c.initial_soc, c.E_capacity)
    ELSE SocBalance(c, ExactSoc(c, a, i - 1), a[i - 1])

\* The values the variables hold after solve(): those of an optimal
\* assignment when the status is Optimal, none (varValue is None) otherwise.
VariableValues(c, d, solution) ==
    IF solution.status = "Optimal"
    THEN {a \in ExactAssignments(c, d, 1, RMul(c.initial_soc, c.E_capacity), Zero) :
             ExactObjective(c, d, a) = solution.objective}
    ELSE {<<>>}

\* The decision columns extract_results copies from the variables.
ExtractedRows(c, a) ==
    [i \in 1..Len(a) |->
        [P_charge |-> a[i].P_charge, P_discharge |-> a[i].P_discharge,
         P_grid_import |-> a[i].P_grid_import, P_grid_export |-> a[i].P_grid_export,
         SOC |-> ExactSoc(c, a, i)]]

StatusIsOptimal_Ignored(status) == TRUE

\* "self.prob.status != 1" of extract_results, "status == 1" of its callers.
StatusIsOptimal(status) == status = "Optimal"

\* extract_results of EnergyStorageOptimizer, the call ending at position
\* after: None unless the status is Optimal, else the frame of the variable
\* values with the revenue columns, kept in self.results.
ExtractResultsTo(after) ==
    /\ pc = "solved"
    /\ alg = "pulp"
    /\ IF StatusIsOptimal(local.status)
       THEN \E a \in VariableValues(cfg, data, local) :
               /\ results' = ExtractedRows(cfg, a)
               /\ revenue' = [i \in 1..Len(a) |-> PeriodRevenue(cfg, data[i], a[i])]
               /\ returned' = Append(returned, [kind |-> "DataFrame",
                                                rows |-> ExtractedRows(cfg, a)])
       ELSE /\ returned' = Append(returned, [kind |-> "None"])
            /\ UNCHANGED <<results, revenue>>
    /\ pc' = after
    /\ UNCHANGED <<alg, cfg, data, t, soc, prev_grid_export, lookahead_periods,
                   dayVars>>

\* EnergyStorageOptimizer.extract_results called on the solved problem.
ExtractResults == ExtractResultsTo("extracted")

\* run_optimization after solve(): results = optimizer.extract_results() when
\* status == 1, "return optimizer, None" otherwise.
RunOptimizationReturn == ExtractResultsTo("returned")

\* The statuses after which build_and_solve keeps the model.
GurobiKept == {"Optimal", "TIME_LIMIT", "INTERRUPTED"}

\* The end of GurobiEnergyOptimizer.build_and_solve: "return None" for a
\* status outside GurobiKept, before anything is stored in the optimizer;
\* else the model and its variables are stored and the model is returned.
GurobiBuildAndSolveReturn ==
    /\ pc = "solved"
    /\ alg = "gurobi"
    /\ IF local.status \in GurobiKept
       THEN /\ local' = [status |-> local.status, model |-> "stored"]
            /\ returned' = Append(returned, [kind |-> "Model"])
       ELSE /\ returned' = Append(returned, [kind |-> "None"])
            /\ UNCHANGED local
    /\ pc' = "returned"
    /\ UNCHANGED <<alg, cfg, data, t, soc, prev_grid_export, results, revenue,
                   lookahead_periods, day_idx, prev_day_soc>>

ExactNext ==
    \/ ExactLoadData
    \/ ExactBuildModel
    \/ ExactAssignPeriod
    \/ ExactFeasible
    \/ ExactSolve
    \/ ExactSolveStopped
    \/ ExtractResults
    \/ RunOptimizationReturn
    \/ GurobiBuildAndSolveReturn

SpecExact == ExactInit /\ [][ExactNext]_vars

(***************************************************************************)
(* The linear programs of linear_programming_optimization.py and           *)
(* optimization_with_excel_data.py: energies per period, no indicators     *)
(***************************************************************************)
LpEngines == {"linear_programming", "excel_data"}

\* OptimizationConfig: NEL and NIL in kW, the battery in kW and kWh, LGC in
\* AUD/MWh.
LpConfig ==
    [NEL |-> Int2Rat(48), NIL |-> Int2Rat(48),
     BATTERY_MAX_CHARGE_POWER |-> Int2Rat(48),
     BATTERY_MAX_DISCHARGE_POWER |-> Int2Rat(12),
     BATTERY_CAPACITY |-> Int2Rat(2),
     CHARGE_EFFICIENCY |-> Rat(1, 2), DISCHARGE_EFFICIENCY |-> Rat(1, 2),
     LGC |-> Int2Rat(-10), INTERVAL_HOURS |-> dt]

\* PV_Energy_kWh of a period, kWh, and its RRP, AUD/MWh.
LpPvLevels == {Zero, Int2Rat(2)}
LpPriceLevels == {Int2Rat(-20), Int2Rat(-5), Int2Rat(50)}

\* The values an energy variable takes in the model, kWh.
LpEnergyLevels == {Zero, One, Int2Rat(2), Int2Rat(4)}

\* The decision variables of one period within their bounds; curtail is
\* fixed by constraint 1 (PV_Balance_t), export_battery by constraint 3
\* (Battery_Export_t), soc by constraint 2 from the previous soc s.
LpVariables(c, row, s) ==
    {[charge_grid |-> cg, charge_pv |-> cp, discharge |-> d, export_pv |-> ep,
      curtail |-> RSub(row.PV_Energy_kWh, RAdd(cp, ep)),
      export_battery |-> RMul(d, c.DISCHARGE_EFFICIENCY),
      soc |-> RSub(RAdd(s, RMul(RAdd(cp, cg), c.CHARGE_EFFICIENCY)),
                   RDiv(d, c.DISCHARGE_EFFICIENCY))] :
        cg \in {e \in LpEnergyLevels : RLe(e, RMul(c.NIL, c.INTERVAL_HOURS))},
        cp \in {e \in LpEnergyLevels : RLe(e, row.PV_Energy_kWh)},
        d \in {e \in LpEnergyLevels :
                  RLe(e, RMul(c.BATTERY_MAX_DISCHARGE_POWER, c.INTERVAL_HOURS))},
        ep \in {e \in LpEnergyLevels : RLe(e, row.PV_Energy_kWh)}}

\* Constraint 4, NEL_Limit_t.
NelLimit(c, x) ==
    RLe(RDiv(RAdd(x.export_pv, x.export_battery), c.INTERVAL_HOURS), c.NEL)

\* Constraint 5, LGC_PV_t and LGC_Battery_t, posted when RRP <= LGC.
LgcLimit(c, row, x) ==
    RLe(row.RRP, c.LGC) => (x.export_pv = Zero /\ x.export_battery = Zero)

\* The values of the variables of one period that satisfy the bounds and
\* the constraints, the previous soc being s (0 before the first period).
LpChoices(c, row, s) ==
    {x \in LpVariables(c, row, s) :
        /\ RGe(x.curtail, Zero)
        /\ RGe(x.soc, Zero) /\ RLe(x.soc, c.BATTERY_CAPACITY)
        /\ NelLimit(c, x)
        /\ LgcLimit(c, row, x)}

\* The term of period t in the objective Total_Revenue.
LpPeriodRevenue(row, x) ==
    RSub(RDiv(RMul(RAdd(x.export_pv, x.export_battery), row.RRP), Int2Rat(1000)),
         RDiv(RMul(x.charge_grid, row.RRP), Int2Rat(1000)))

\* The feasible assignments of the periods k..n, the previous soc being s.
RECURSIVE LpAssignments(_, _, _, _)
LpAssignments(c, d, k, s) ==
    IF k > Len(d) THEN {<<>>}
    ELSE UNION {{<<x>> \o rest : rest \in LpAssignments(c, d, k + 1, x.soc)} :
                x \in LpChoices(c, d[k], s)}

LpObjective(d, a) == RSum([i \in 1..Len(a) |-> LpPeriodRevenue(d[i], a[i])])

\* prob.solve: the status and the value of the objective.
LpSolution(c, d) ==
    ExactSolution({LpObjective(d, a) : a \in LpAssignments(c, d, 1, Zero)})

\* The assignments that attain the objective value.
LpOptimal(c, d, objective) ==
    {a \in LpAssignments(c, d, 1, Zero) : LpObjective(d, a) = objective}

LpInit ==
    /\ alg \in LpEngines
    /\ cfg = LpConfig
    /\ data = <<>>
    /\ pc = "new"
    /\ t = 0
    /\ soc = Zero
    /\ prev_grid_export = Zero
    /\ results = <<>>
    /\ revenue = <<>>
    /\ lookahead_periods = 0
    /\ day_idx = 0
    /\ local = <<>>
    /\ prev_day_soc = "unset"
    /\ returned = <<>>

\* The data frame of the script: PV_Energy_kWh and RRP of every period.
LpLoadData ==
    /\ pc = "new"
    /\ alg \in LpEngines
    /\ \E n \in 1..LpPeriods :
          data' \in [1..n -> [PV_Energy_kWh : LpPvLevels, RRP : LpPriceLevels]]
    /\ pc' = "loaded"
    /\ UNCHANGED <<returned, alg, cfg, t, soc, prev_grid_export, results, revenue,
                   lookahead_periods, dayVars>>

\* The problem is built and prob.solve(solver) returns.
LpSolve ==
    /\ pc = "loaded"
    /\ alg \in LpEngines
    /\ local' = LpSolution(cfg, data)
    /\ pc' = "solved"
    /\ UNCHANGED <<returned, alg, cfg, data, t, soc, prev_grid_export, results,
                   revenue, lookahead_periods, day_idx, prev_day_soc>>

\* The script past the solve: exit(1) unless the status is Optimal, else
\* the values of the variables are copied into the result rows.
LpExtractResults ==
    /\ pc = "solved"
    /\ alg \in LpEngines
    /\ IF local.status # "Optimal"
       THEN pc' = "exit" /\ UNCHANGED <<results, revenue>>
       ELSE /\ results' \in LpOptimal(cfg, data, local.objective)
            /\ revenue' = [i \in 1..Len(data) |->
                              LpPeriodRevenue(data[i], results'[i])]
            /\ pc' = "extracted"
    /\ UNCHANGED <<returned, alg, cfg, data, t, soc, prev_grid_export,
                   lookahead_periods, dayVars>>

\* The variables hold the values of one of the assignments that satisfy
\* every bound and constraint of the problem built from the data.
LpFeasible ==
    /\ pc = "loaded"
    /\ alg \in LpEngines
    /\ results' \in LpAssignments(cfg, data, 1, Zero)
    /\ pc' = "feasible"
    /\ UNCHANGED <<returned, alg, cfg, data, t, soc, prev_grid_export, revenue,
                   lookahead_periods, local, day_idx, prev_day_soc>>

LpNext ==
    \/ LpLoadData
    \/ LpFeasible
    \/ LpSolve
    \/ LpExtractResults

SpecLp == LpInit /\ [][LpNext]_vars

(***************************************************************************)
(* A heuristic engine and the exact formulation on the same horizon        *)
(***************************************************************************)
\* A sequential heuristic engine constructed with an exact engine's
\* configuration and loaded with one of its horizons.
CompareInit ==
    /\ alg \in {"greedy", "lookahead"}
    /\ cfg \in ExactConfigs
    /\ data \in ExactHorizons(cfg)
    /\ pc = "loaded"
    /\ t = 0
    /\ soc = Zero
    /\ prev_grid_export = Zero
    /\ results = <<>>
    /\ revenue = <<>>
    /\ lookahead_periods = 0
    /\ day_idx = 0
    /\ local = <<>>
    /\ prev_day_soc = "unset"
    /\ returned = <<>>

\* EnergyStorageOptimizer built and solved on the data and the configuration
\* the heuristic engine has just scheduled.
CompareExact ==
    /\ pc = "done"
    /\ alg \in {"greedy", "lookahead"}
    /\ local' = ExactSolution(ExactBest(cfg, data, 1,
                                        RMul(cfg.initial_soc, cfg.E_capacity), Zero))
    /\ pc' = "compared"
    /\ UNCHANGED <<returned, alg, cfg, data, t, soc, prev_grid_export, results, revenue,
                   lookahead_periods, day_idx, prev_day_soc>>

CompareNext ==
    \/ OptimizeBegin
    \/ GreedyStep
    \/ LookaheadStep
    \/ SeqCalculateRevenue
    \/ CompareExact

SpecCompare == CompareInit /\ [][CompareNext]_vars

(***************************************************************************)
(* The six heuristic schedulers together                                   *)
(***************************************************************************)
HeurInit == SeqInit \/ DayInit \/ ScriptInit

HeurNext ==
    \/ LoadData
    \/ OptimizeBegin
    \/ GreedyStep
    \/ LookaheadStep
    \/ SeqCalculateRevenue
    \/ DayLoadData
    \/ OptimizeDailyBegin
    \/ SingleDayNoDaytime
    \/ SingleDaySelect
    \/ DaytimeStep
    \/ GridLimitedStep
    \/ SingleDayEnd
    \/ OptimizeDailyEnd
    \/ ScriptLoadData
    \/ ScriptBegin
    \/ GdoChargeBattery
    \/ GdoDischargeBatteryGreedy
    \/ GdoMergeDay
    \/ V2OptimizeDaily
    \/ V2MergeDay
    \/ ScriptRevenue

SpecHeur == HeurInit /\ [][HeurNext]_vars

(***************************************************************************)
(* Claims about the sequential engines (checked under SpecSeq).            *)
(***************************************************************************)
\* pv_power + P_discharge + P_grid_import - P_charge - P_grid_export of row i:
\* the power that is neither stored nor exported (the implicit curtailment).
SeqCurtailed(i) ==
    RSub(RAdd(RAdd(data[i].pv_power, results[i].P_discharge), results[i].P_grid_import),
         RAdd(results[i].P_charge, results[i].P_grid_export))

\* C1: in every period of a schedule of optimize_greedy or
\* optimize_with_lookahead the energy balance closes with a non-negative
\* curtailment: pv_power + P_discharge + P_grid_import - P_charge -
\* P_grid_export >= 0.
C1_BalanceNonNegative ==
    \A i \in 1..Len(results) : RGe(SeqCurtailed(i), Zero)

\* C3: for every period after the first of a schedule of the sequential
\* engines, |P_grid_export[t] - P_grid_export[t-1]| <= max_ramp.
C3_RampBound ==
    \A i \in 2..Len(results) :
        RLe(RAbs(RSub(results[i].P_grid_export, results[i - 1].P_grid_export)),
            max_ramp(cfg))

\* C4: in every period of a schedule of the sequential engines whose price is
\* below min_export_price (= -lgc_price), P_grid_export is zero.
C4_PriceFloor ==
    \A i \in 1..Len(results) :
        RLt(data[i].rrp, min_export_price(cfg)) => results[i].P_grid_export = Zero


(***************************************************************************)
(* Claims about the day-partitioned class engines                          *)
(***************************************************************************)
\* Sources minus sinks of row i of a finished day-partitioned schedule.
DayImbalance(i) ==
    RSub(RAdd(RAdd(data[i].pv_power, results[i].P_discharge), results[i].P_grid_import),
         RAdd(RAdd(results[i].P_charge, results[i].P_grid_export),
              results[i].P_pv_curtail))

\* C2: in the schedule returned by DaytimeStorageOptimizer and by
\* GridLimitedOptimizer, every period satisfies the four-sink balance
\* pv_power + P_discharge + P_grid_import = P_charge + P_grid_export +
\* P_pv_curtail, night periods with 0 < POA <= 5 and ramp-clamped periods
\* included.
C2_EnergyBalance ==
    (alg \in DayEngines /\ pc = "done") =>
        \A i \in 1..Len(results) : DayImbalance(i) = Zero


(***************************************************************************)
(* Claims about the scripts                                                *)
(***************************************************************************)
\* Row k of the merged results prices at or below LGC.
AtOrBelowLGC(k) == RLe(data[results[k].index].RRP_MWh, cfg.LGC)

\* C5: in the merged results of greedy_discharge_optimization.py and of
\* greedy_discharge_v2.py, every period whose RRP_MWh is at or below LGC
\* exports nothing: Export_PV_kWh = 0 and Export_Battery_kWh = 0.
C5_NoExportAtOrBelowLGC ==
    alg \in ScriptEngines =>
        \A k \in 1..Len(results) :
            AtOrBelowLGC(k) =>
                /\ results[k].Export_PV_kWh = Zero
                /\ results[k].Export_Battery_kWh = Zero

\* A finished run in which a low-priced period had PV energy to sell and the
\* battery held charge when the period was considered.
C5_Witness ==
    /\ alg \in ScriptEngines
    /\ pc = "done"
    /\ \E k \in 1..Len(results) :
          /\ AtOrBelowLGC(k)
          /\ RGt(data[results[k].index].PV_Energy_kWh, Zero)
          /\ results[k].Action = "Price_Too_Low"
          /\ RGt(results[k].SOC_kWh, Zero)

\* Charged energy of a result row, kWh.
ChargedEnergy(r) == RAdd(r.Charge_PV_kWh, r.Charge_Grid_kWh)

Occurrences(df, i) == Cardinality({k \in 1..Len(df) : df[k].index = i})

\* C8: in the day's results that optimize_daily of greedy_discharge_v2.py
\* returns, every period of the day appears exactly once and no row has both
\* a positive charge and a positive discharge.
C8_V2PartitionsTheDay ==
    (alg = "v2" /\ pc = "optimized") =>
        /\ \A i \in DayIndices(data, day_idx) : Occurrences(local.day_results, i) = 1
        /\ \A k \in 1..Len(local.day_results) :
              /\ local.day_results[k].index \in DayIndices(data, day_idx)
              /\ ~(/\ RGt(ChargedEnergy(local.day_results[k]), Zero)
                   /\ RGt(local.day_results[k].Discharge_kWh, Zero))

\* A day in which optimize_daily charged in one period and discharged in
\* another, the charged period lying inside the discharge window.
C8_Witness ==
    /\ alg = "v2"
    /\ pc = "optimized"
    /\ \E k, m \in 1..Len(local.day_results) :
          /\ RGt(ChargedEnergy(local.day_results[k]), Zero)
          /\ local.day_results[k].index \in DischargeWindow(data, day_idx)
          /\ RGt(local.day_results[m].Discharge_kWh, Zero)

\* Row k of the merged results neither charges nor discharges the battery.
BatteryIdle(k) ==
    ChargedEnergy(results[k]) = Zero /\ results[k].Discharge_kWh = Zero

\* C21: in the final results of greedy_discharge_optimization.py, every
\* period in which the battery neither charges nor discharges exports its
\* generation up to the export limit when the price is above LGC
\* (Export_PV_kWh = min(PV_Energy_kWh, NEL * INTERVAL_HOURS)) and curtails it
\* otherwise, the Battery_Empty periods of the discharge window included.
C21_IdlePeriodsExportGeneration ==
    alg = "gdo" =>
        \A k \in 1..Len(results) :
            BatteryIdle(k) =>
                IF RGt(data[results[k].index].RRP_MWh, cfg.LGC)
                THEN results[k].Export_PV_kWh =
                         RMin(data[results[k].index].PV_Energy_kWh,
                              RMul(cfg.NEL, cfg.INTERVAL_HOURS))
                ELSE /\ results[k].Export_PV_kWh = Zero
                     /\ results[k].Curtail_kWh = data[results[k].index].PV_Energy_kWh

(***************************************************************************)
(* Claims about the recorded state of charge of greedy_discharge_v2.py     *)
(***************************************************************************)
\* The state of charge the recurrence gives after row r, from before kWh.
RecurrenceSoc(before, r) ==
    RSub(RAdd(before, RMul(ChargedEnergy(r), cfg.CHARGE_EFFICIENCY)),
         RDiv(r.Discharge_kWh, cfg.DISCHARGE_EFFICIENCY))

\* C13: in the results of greedy_discharge_v2.py the recorded SOC_kWh follows
\* the state recurrence in chronological order: for consecutive periods t,
\* t+1, SOC[t+1] = SOC[t] + (Charge_PV[t+1] + Charge_Grid[t+1]) *
\* CHARGE_EFFICIENCY - Discharge[t+1] / DISCHARGE_EFFICIENCY.
C13_V2SocRecurrence ==
    alg = "v2" =>
        \A k \in 1..(Len(results) - 1) :
            results[k + 1].SOC_kWh = RecurrenceSoc(results[k].SOC_kWh, results[k + 1])

\* C16: whenever optimize_greedy or optimize_with_lookahead discharges the
\* battery in a period (P_discharge > 0), the final P_grid_export of the
\* period equals pv_power + P_discharge, also when the ramp clamp limits the
\* export.
C16_DischargeIsExported ==
    alg \in {"greedy", "lookahead"} =>
        \A i \in 1..Len(results) :
            RGt(results[i].P_discharge, Zero) =>
                results[i].P_grid_export
                    = RAdd(data[i].pv_power, results[i].P_discharge)

(***************************************************************************)
(* Claims about the revenue computation                                    *)
(***************************************************************************)
\* P_grid_export[i]*dt*price[i] - P_grid_import[i]*dt*price[i]
\* + pv_power[i]*dt*incentive_rate
StatedNetRevenue(i) ==
    RAdd(RSub(RMul(RMul(results[i].P_grid_export, dt), data[i].rrp),
              RMul(RMul(results[i].P_grid_import, dt), data[i].rrp)),
         RMul(RMul(data[i].pv_power, dt), cfg.lgc_price))

\* C17: the revenue computation of every class engine gives, per period,
\* net_revenue = P_grid_export*dt*price - P_grid_import*dt*price
\* + pv_power*dt*lgc_price; DaytimeStorageOptimizer._calculate_revenue
\* credits the incentive on the generation, whether it is exported,
\* curtailed or stored, as SimplifiedOptimizer._calculate_revenue does.
C17_RevenueFormula ==
    (alg \in {"greedy", "lookahead"} \cup DayEngines /\ pc = "done") =>
        \A i \in 1..Len(revenue) : revenue[i] = StatedNetRevenue(i)

(***************************************************************************)
(* Claims about input validation                                           *)
(***************************************************************************)
\* C12: a horizon with a period of negative irradiance (POA < 0) is rejected
\* before scheduling begins: no schedule row is ever written for a period
\* whose pv_power is negative.
C12_NegativeIrradianceRejected ==
    alg \in {"greedy", "lookahead"} =>
        \A i \in 1..Len(results) : RGe(data[i].pv_power, Zero)

(***************************************************************************)
(* Claims about repeated runs of the day-partitioned class engines         *)
(***************************************************************************)
\* No two POA > 10 rows of a day carry the same price: sort_values lists the
\* candidate rows of such a horizon in one order only, so two runs on it do
\* not differ by the order of equal-priced rows.
NoPriceTies ==
    \A day \in 1..NumDays(data) :
        \A i, j \in DaytimePeriods(data, day) : i # j => data[i].rrp # data[j].rrp

\* C11: two calls of DaytimeStorageOptimizer.optimize_daily on the same
\* instance, with the same loaded data and configuration, return the same
\* decision series: nothing the first call has left (the attribute
\* _prev_day_soc) influences the second.
C11_RerunIdentical ==
    (alg = "daytime" /\ Len(returned) = 2 /\ NoPriceTies) =>
        returned[2] = returned[1]

(***************************************************************************)
(* Claims about all heuristic schedulers                                   *)
(***************************************************************************)
\* The state of charge recorded in result row k, and the battery capacity of
\* the engine that wrote it, kWh.
RecordedSoc(k) == IF alg \in ScriptEngines THEN results[k].SOC_kWh ELSE results[k].SOC

Capacity == IF alg \in ScriptEngines THEN cfg.BATTERY_CAPACITY ELSE cfg.E_capacity

\* C6: every state of charge recorded by the six heuristic schedulers
\* (optimize_greedy, optimize_with_lookahead, DaytimeStorageOptimizer,
\* GridLimitedOptimizer, greedy_discharge_optimization.py,
\* greedy_discharge_v2.py) lies between 0 and the battery capacity.
C6_SocWithinBounds ==
    \A k \in 1..Len(results) :
        /\ RGe(RecordedSoc(k), Zero)
        /\ RLe(RecordedSoc(k), Capacity)

\* A recorded period whose discharge, divided by the efficiency, exceeds what
\* the battery held: the recorded state of charge is the lower bound itself.
C6_Witness ==
    /\ alg \in ScriptEngines
    /\ \E k \in 1..Len(results) :
          /\ RGt(results[k].Discharge_kWh, Zero)
          /\ results[k].Action = "Battery_Only"
          /\ results[k].SOC_kWh = Zero


\* The state of charge the period of result row k starts with: the state of
\* charge recorded for the period before it, the initial one for the first.
StartSoc(k) ==
    IF k > 1 THEN RecordedSoc(k - 1)
    ELSE IF alg \in ScriptEngines THEN RMul(cfg.BATTERY_CAPACITY, Rat(1, 2))
    ELSE RMul(cfg.initial_soc, cfg.E_capacity)

\* The battery charge and the grid import recorded in result row k.
RecordedCharge(k) ==
    IF alg \in ScriptEngines THEN ChargedEnergy(results[k]) ELSE results[k].P_charge

RecordedImport(k) ==
    IF alg \in ScriptEngines THEN results[k].Charge_Grid_kWh ELSE results[k].P_grid_import

\* C14: in the schedules of SimplifiedOptimizer, ImprovedOptimizer,
\* DaytimeStorageOptimizer and greedy_discharge_v2.py, a period that starts
\* with the state of charge equal to the capacity has no battery charge and
\* no grid import.
C14_NoChargeWhenFull ==
    alg \in {"greedy", "lookahead", "daytime", "v2"} =>
        \A k \in 1..Len(results) :
            StartSoc(k) = Capacity =>
                RecordedCharge(k) = Zero /\ RecordedImport(k) = Zero

(***************************************************************************)
(* Claims about the exact formulation                                      *)
(***************************************************************************)
\* C9: every assignment that satisfies the constraints built by
\* EnergyStorageOptimizer.build_optimization_model and by
\* GurobiEnergyOptimizer.build_and_solve has, in every period, P_charge > 0
\* only with P_discharge = 0 and P_discharge > 0 only with P_charge = 0.
C9_ExactMutualExclusion ==
    alg \in ExactEngines =>
        \A i \in 1..Len(results) :
            /\ RGt(results[i].P_charge, Zero) => results[i].P_discharge = Zero
            /\ RGt(results[i].P_discharge, Zero) => results[i].P_charge = Zero

\* A feasible assignment that charges in one period and discharges in
\* another.
C9_Witness ==
    /\ alg \in ExactEngines
    /\ pc = "feasible"
    /\ \E i, j \in 1..Len(results) :
          /\ RGt(results[i].P_charge, Zero)
          /\ RGt(results[j].P_discharge, Zero)

\* Row i of the horizon prices below the minimum export price and generates.
FloorPeriod(i) ==
    RLt(data[i].rrp, RNeg(cfg.lgc_price)) /\ RGt(data[i].pv_power, Zero)

\* C15: the exact formulation schedules a period whose price is below the
\* minimum export price and whose generation is not zero with no export,
\* curtailing the generation it does not store: the problem built for a
\* horizon with such a period has a solution, also when the battery is full
\* or the generation exceeds the maximum charge power.
C15_FloorPeriodFeasible ==
    (alg \in ExactEngines /\ pc = "solved"
        /\ \E i \in 1..Len(data) : FloorPeriod(i)) =>
        local.status # "Infeasible"

\* The statuses after which the engine hands a schedule or a model on.
StatusAccepted ==
    IF alg = "pulp" THEN local.status = "Optimal" ELSE local.status \in GurobiKept

\* C18: when the exact solver ends in a status other than Optimal, no
\* partial schedule is returned: extract_results and run_optimization of
\* EnergyStorageOptimizer return None, and build_and_solve of
\* GurobiEnergyOptimizer returns None for every status other than OPTIMAL,
\* TIME_LIMIT and INTERRUPTED; the optimizer holds no model and no results.
C18_NoPartialSchedule ==
    (alg \in ExactEngines /\ pc \in {"extracted", "returned"} /\ ~StatusAccepted) =>
        /\ returned[Len(returned)].kind = "None"
        /\ results = <<>>
        /\ DOMAIN local = {"status"}

\* Each engine has returned from an infeasible problem, and the PuLP engine
\* from a solve stopped by its time limit.
C18_Witness ==
    /\ alg \in ExactEngines
    /\ pc \in {"extracted", "returned"}
    /\ local.status \in {"Infeasible", "Not Solved"}
    /\ Len(returned) = 1

\* Charging (from generation or from the grid) and discharging are not both
\* positive in the period.
LpMutuallyExclusive(x) ==
    ~(RGt(RAdd(x.charge_pv, x.charge_grid), Zero) /\ RGt(x.discharge, Zero))

\* C19: every optimal schedule of the linear program satisfies mutual
\* exclusion: in no period are charge_pv + charge_grid and discharge both
\* positive, periods with a negative price above the export floor and a full
\* battery included.
C19_LpMutualExclusion ==
    (alg \in LpEngines /\ pc = "extracted") =>
        \A i \in 1..Len(results) : LpMutuallyExclusive(results[i])

\* The Is_Daytime rows (POA > 5) of a day.
Daylight(d, day) == {i \in DayIndices(d, day) : d[i].Is_Daytime}

\* The rows from the first daylight of the day up to the first daylight of
\* the next day, both days having daylight.
DawnToDawn(d, day) ==
    {i \in DayIndices(d, day) \cup DayIndices(d, day + 1) :
        SetMin(Daylight(d, day)) <= i /\ i < SetMin(Daylight(d, day + 1))}

\* C20: the periods considered for discharge on behalf of day D are exactly
\* those from the first daylight (POA > 5) of day D up to the first daylight
\* of day D+1, the pre-dawn periods of day D+1 included.
C20_DischargeWindowDawnToDawn ==
    (/\ alg \in ScriptEngines
     /\ pc \in {"discharged", "optimized"}
     /\ Daylight(data, day_idx) # {}
     /\ Daylight(data, day_idx + 1) # {}) =>
        DischargeWindow(data, day_idx) = DawnToDawn(data, day_idx)

\* The energy the POA > 10 periods of the day can store (each at most
\* P_charge_max for dt, at efficiency eta_c) covers the headroom the day
\* starts with.
CanFillBattery(c, d, day, s) ==
    RGe(RMul(Int2Rat(Cardinality(DaytimePeriods(d, day))),
             RMul(RMul(c.P_charge_max, dt), c.eta_c)),
        RSub(c.E_capacity, s))

\* No row of the day up to its last charging period is a night row (POA <= 5).
NoNightBeforeLastCharge ==
    \A i \in DayIndices(data, day_idx) :
        i <= SetMax(local.charging_periods) => data[i].poa > 5

\* C22: in DaytimeStorageOptimizer with charge efficiency below 1, when the
\* POA > 10 periods of a day can deliver enough charging energy to fill the
\* battery, the state of charge is 100% of the capacity once the last of the
\* periods selected for charging has been executed.
C22_ChargingFillsBattery ==
    (/\ alg = "daytime"
     /\ pc = "exec"
     /\ local.charging_periods # {}
     /\ t = SetMax(local.charging_periods) + 1
     /\ NoNightBeforeLastCharge
     /\ CanFillBattery(cfg, data, day_idx,
                       DayStartSoc(cfg, day_idx, prev_day_soc))) =>
        soc = cfg.E_capacity

\* The records of the day in the order the discharge loop wrote them, and
\* the state of charge the first of them started from.
DischargeRecords == IF alg = "gdo" THEN local.discharge_df ELSE local.day_results

SocBeforeRecord(k) ==
    IF k > 1 THEN DischargeRecords[k - 1].SOC_kWh
    ELSE IF alg = "gdo" THEN local.soc_after_charge ELSE soc

\* C23: in the discharge steps of optimize_daily of greedy_discharge_v2.py
\* and of discharge_battery_greedy, with a discharge efficiency below 1,
\* soc - discharge_energy / DISCHARGE_EFFICIENCY is not negative before
\* max(0, soc) is applied.
C23_NoOverDischargeBeforeClamp ==
    ((alg = "gdo" /\ pc = "discharged") \/ (alg = "v2" /\ pc = "optimized")) =>
        \A k \in 1..Len(DischargeRecords) :
            RGt(DischargeRecords[k].Discharge_kWh, Zero) =>
                RGe(RSub(SocBeforeRecord(k),
                         RDiv(DischargeRecords[k].Discharge_kWh,
                              cfg.DISCHARGE_EFFICIENCY)),
                    Zero)

\* C24: in every period of a schedule of optimize_with_lookahead, for any
\* price series (look-ahead windows with a zero or negative average price
\* included), 0 <= P_discharge <= P_discharge_max, 0 <= P_charge <=
\* P_charge_max and P_grid_import >= 0.
C24_LookaheadPowersWithinBounds ==
    alg = "lookahead" =>
        \A i \in 1..Len(results) :
            /\ RGe(results[i].P_discharge, Zero)
            /\ RLe(results[i].P_discharge, cfg.P_discharge_max)
            /\ RGe(results[i].P_charge, Zero)
            /\ RLe(results[i].P_charge, cfg.P_charge_max)
            /\ RGe(results[i].P_grid_import, Zero)

\* C25: in every period of a schedule of GridLimitedOptimizer,
\* 0 <= P_grid_import <= nil and 0 <= P_grid_export <= nel, also after the
\* ramp clamp has replaced the tentative export.
C25_GridLimitsRespected ==
    alg = "gridlimit" =>
        \A i \in 1..Len(results) :
            /\ RGe(results[i].P_grid_import, Zero)
            /\ RLe(results[i].P_grid_import, cfg.nil)
            /\ RGe(results[i].P_grid_export, Zero)
            /\ RLe(results[i].P_grid_export, cfg.nel)

\* A finished schedule with a charging period that imports exactly nil, a
\* period that exports exactly nel, and a pv_export period whose export the
\* ramp clamp has replaced.
C25_Witness ==
    /\ alg = "gridlimit"
    /\ pc = "done"
    /\ \E i \in 1..Len(results) :
          results[i].action = "charging" /\ results[i].P_grid_import = cfg.nil
    /\ \E i \in 1..Len(results) : results[i].P_grid_export = cfg.nel
    /\ \E i \in 1..Len(results) :
          /\ results[i].action = "pv_export"
          /\ RGt(results[i].P_grid_export, Zero)
          /\ results[i].P_grid_export # RMin(data[i].pv_power, cfg.nel)

\* C26: every feasible schedule of the linear program of
\* linear_programming_optimization.py respects the battery charge power
\* limit: (charge_pv + charge_grid) / INTERVAL_HOURS <=
\* BATTERY_MAX_CHARGE_POWER in every period.
C26_LpChargePowerLimit ==
    (alg = "linear_programming" /\ pc = "feasible") =>
        \A i \in 1..Len(results) :
            RLe(RDiv(RAdd(results[i].charge_pv, results[i].charge_grid),
                     cfg.INTERVAL_HOURS),
                cfg.BATTERY_MAX_CHARGE_POWER)

\* The prices of the K periods after period i (1-based), as far as the
\* horizon goes.
NextPrices(d, i, K) ==
    [j \in 1..((IF i + K < Len(d) THEN i + K ELSE Len(d)) - i) |-> d[i + j].rrp]

\* C27: in optimize_with_lookahead(lookahead_periods = K) the statistics of
\* a period are taken over the next K periods: max_future_price is the
\* largest and avg_future_price the mean of price[t+1..min(t+K, n-1)]; at
\* the last period both equal the current price.
C27_LookaheadWindowIsNextK ==
    (alg = "lookahead" /\ pc = "run" /\ t \in 1..Len(data)) =>
        IF t = Len(data)
        THEN /\ max_future_price(data, t, lookahead_periods) = data[t].rrp
             /\ avg_future_price(data, t, lookahead_periods) = data[t].rrp
        ELSE /\ max_future_price(data, t, lookahead_periods)
                    = RMaxSeq(NextPrices(data, t, lookahead_periods))
             /\ avg_future_price(data, t, lookahead_periods)
                    = Mean(NextPrices(data, t, lookahead_periods))

\* C28: in a multi-day schedule of optimize_daily of
\* DaytimeStorageOptimizer and GridLimitedOptimizer, the ramp bound
\* |P_grid_export[t] - P_grid_export[t-1]| <= max_ramp holds for every pair
\* of consecutive periods of the horizon, the last period of a day and the
\* first period of the next day included.
C28_RampBoundAcrossDays ==
    (alg \in DayEngines /\ pc = "done") =>
        \A i \in 2..Len(results) :
            RLe(RAbs(RSub(results[i].P_grid_export, results[i - 1].P_grid_export)),
                max_ramp(cfg))

\* The state of charge after the first k rows of the merged results are
\* applied in time order from the starting state of charge s0 (half the
\* capacity, as the main loop sets it).
RECURSIVE ChronologicalSoc(_)
ChronologicalSoc(k) ==
    IF k = 0 THEN RMul(cfg.BATTERY_CAPACITY, Rat(1, 2))
    ELSE RSub(RAdd(ChronologicalSoc(k - 1),
                   RMul(ChargedEnergy(results[k]), cfg.CHARGE_EFFICIENCY)),
              RDiv(results[k].Discharge_kWh, cfg.DISCHARGE_EFFICIENCY))

\* The merged results list the periods in time order.
InTimeOrder == \A k \in 1..Len(results) : results[k].index = k

\* C29: the schedule of greedy_discharge_v2.py can be executed in time
\* order: applying the charge and discharge of every period chronologically
\* never takes the state of charge below 0 or above BATTERY_CAPACITY.
C29_V2ExecutableInTimeOrder ==
    (alg = "v2" /\ InTimeOrder) =>
        \A k \in 1..Len(results) :
            /\ RGe(ChronologicalSoc(k), Zero)
            /\ RLe(ChronologicalSoc(k), cfg.BATTERY_CAPACITY)

\* The statements of C30 about one row r of the results of
\* greedy_discharge_v2.py: its generation is split, without remainder and
\* without a negative part, between charging, export and curtailment, and
\* its exports stay within the export limit of one period.
V2RowConservesGeneration(r) ==
    /\ RAdd(RAdd(r.Charge_PV_kWh, r.Export_PV_kWh), r.Curtail_kWh)
           = data[r.index].PV_Energy_kWh
    /\ RGe(r.Charge_PV_kWh, Zero)
    /\ RGe(r.Export_PV_kWh, Zero)
    /\ RGe(r.Curtail_kWh, Zero)
    /\ RLe(RAdd(r.Export_PV_kWh, r.Export_Battery_kWh),
           RMul(cfg.NEL, cfg.INTERVAL_HOURS))

\* The actions optimize_daily of greedy_discharge_v2.py records.
V2Actions ==
    {"Charging", "PV_Only", "PV_Battery_Mix", "Battery_Only", "Battery_Empty",
     "Price_Too_Low", "PV_Only_Idle"}

C10_ExactNotBelowHeuristic ==
    (pc = "compared" /\ local.status = "Optimal") =>
        RGe(local.objective, RSum(revenue))

====
